---- MODULE Spec2Model ----
(***************************************************************************)
(* Model of the M365 Admin TUI execution workflow (src/main.py): the       *)
(* parameter input modal, the confirmation modal, the exclusive worker     *)
(* run_script_workflow, and execute_script_direct with its child process,  *)
(* its two stream readers and the classification of the exit status.       *)
(*                                                                         *)
(* Text entered in an Input widget is a sequence of one-character strings  *)
(* (so that str.strip() is computed), a Python dict is a sequence of       *)
(* <<key, value>> pairs in insertion order, and an output line is a string.*)
(***************************************************************************)
EXTENDS Integers, Sequences, FiniteSets, TLC

\* Bounds of the model.
MaxLines == 2       \* lines a child writes to its standard output
MaxErrLines == 1    \* lines a child writes to its standard error
\* The lines a child writes to its standard output where the streaming of one
\* invocation is followed on its own: enough for a snapshot every fifth line.
MaxStreamLines == 5

MaxOrphans == 1     \* children left running by cancelled workers
MaxHeaderLines == 2  \* lines of the head of a script, after its leading blank lines

-----------------------------------------------------------------------------
\* Python string helpers.

Whitespace == {" ", "\t", "\n"}

RECURSIVE LStrip(_)
LStrip(s) == IF s # <<>> /\ Head(s) \in Whitespace THEN LStrip(Tail(s)) ELSE s

RECURSIVE RStrip(_)
RStrip(s) ==
    IF s # <<>> /\ s[Len(s)] \in Whitespace THEN RStrip(SubSeq(s, 1, Len(s) - 1)) ELSE s

\* str.strip()
Strip(s) == RStrip(LStrip(s))

UpperCase ==
    <<"A", "B", "C", "D", "E", "F", "G", "H", "I", "J", "K", "L", "M",
      "N", "O", "P", "Q", "R", "S", "T", "U", "V", "W", "X", "Y", "Z">>

LowerCase ==
    <<"a", "b", "c", "d", "e", "f", "g", "h", "i", "j", "k", "l", "m",
      "n", "o", "p", "q", "r", "s", "t", "u", "v", "w", "x", "y", "z">>

\* str.lower(), on a sequence of characters
Lower(s) ==
    [i \in 1..Len(s) |->
        IF \E k \in 1..Len(UpperCase) : UpperCase[k] = s[i]
        THEN LowerCase[CHOOSE k \in 1..Len(UpperCase) : UpperCase[k] = s[i]]
        ELSE s[i]]

\* "sub in s", on sequences of characters
Contains(sub, s) ==
    \E i \in 1..(Len(s) - Len(sub) + 1) : SubSeq(s, i, i + Len(sub) - 1) = sub

\* s.endswith(suffix), on sequences of characters
EndsWith(suffix, s) ==
    /\ Len(s) >= Len(suffix)
    /\ SubSeq(s, Len(s) - Len(suffix) + 1, Len(s)) = suffix

\* s.startswith(prefix), on sequences
StartsWith(prefix, s) ==
    /\ Len(s) >= Len(prefix)
    /\ SubSeq(s, 1, Len(prefix)) = prefix

Min(S) == CHOOSE x \in S : \A y \in S : x <= y

Max(S) == CHOOSE x \in S : \A y \in S : x >= y

\* The characters of the words the model uses; every other token is one
\* character.
Chars(s) ==
    CASE s = "UserPrincipalName" ->
            <<"U", "s", "e", "r", "P", "r", "i", "n", "c", "i", "p", "a", "l", "N", "a", "m", "e">>
      [] s = "Notes" ->
            <<"N", "o", "t", "e", "s">>
      [] s = "Password" ->
            <<"P", "a", "s", "s", "w", "o", "r", "d">>
      [] s = "AdminPASSWORD" ->
            <<"A", "d", "m", "i", "n", "P", "A", "S", "S", "W", "O", "R", "D">>
      [] s = "Force" ->
            <<"F", "o", "r", "c", "e">>
      [] s = "param" ->
            <<"p", "a", "r", "a", "m">>
      [] s = "Parameter" ->
            <<"P", "a", "r", "a", "m", "e", "t", "e", "r">>
      [] s = "Mandatory" ->
            <<"M", "a", "n", "d", "a", "t", "o", "r", "y">>
      [] s = "Position" ->
            <<"P", "o", "s", "i", "t", "i", "o", "n">>
      [] s = "HelpMessage" ->
            <<"H", "e", "l", "p", "M", "e", "s", "s", "a", "g", "e">>
      [] s = "true" ->
            <<"t", "r", "u", "e">>
      [] s = "false" ->
            <<"f", "a", "l", "s", "e">>
      [] s = "True" ->
            <<"T", "r", "u", "e">>
      [] s = "string" ->
            <<"s", "t", "r", "i", "n", "g">>
      [] s = "switch" ->
            <<"s", "w", "i", "t", "c", "h">>
      [] s = "Switch" ->
            <<"S", "w", "i", "t", "c", "h">>
      [] s = "ConnectTenant" ->
            <<"C", "o", "n", "n", "e", "c", "t", "T", "e", "n", "a", "n", "t">>
      [] s = "NewUser" ->
            <<"N", "e", "w", "U", "s", "e", "r">>
      [] s = "SetPassword" ->
            <<"S", "e", "t", "P", "a", "s", "s", "w", "o", "r", "d">>
      [] s = "Connects" ->
            <<"C", "o", "n", "n", "e", "c", "t", "s">>
      [] s = "the" ->
            <<"t", "h", "e">>
      [] s = "tenant" ->
            <<"t", "e", "n", "a", "n", "t">>
      [] s = "ListLicenses" ->
            <<"L", "i", "s", "t", "L", "i", "c", "e", "n", "s", "e", "s">>
      [] OTHER -> <<s>>

\* ord(c) of a letter
Ord(c) ==
    IF \E k \in 1..Len(UpperCase) : UpperCase[k] = c
    THEN 64 + (CHOOSE k \in 1..Len(UpperCase) : UpperCase[k] = c)
    ELSE 96 + (CHOOSE k \in 1..Len(LowerCase) : LowerCase[k] = c)

\* a < b of two str, on sequences of characters
RECURSIVE SeqLess(_, _)
SeqLess(a, b) ==
    IF b = <<>> THEN FALSE
    ELSE IF a = <<>> THEN TRUE
    ELSE IF Head(a) # Head(b) THEN Ord(Head(a)) < Ord(Head(b))
    ELSE SeqLess(Tail(a), Tail(b))

StrLess(a, b) == SeqLess(Chars(a), Chars(b))

\* sorted(keys), of a set of str
RECURSIVE Sorted(_)
Sorted(keys) ==
    IF keys = {} THEN <<>>
    ELSE LET first == CHOOSE k \in keys : \A other \in keys \ {k} : StrLess(k, other)
         IN  <<first>> \o Sorted(keys \ {first})

\* ''.join(lines)
RECURSIVE Join(_)
Join(lines) == IF lines = <<>> THEN "" ELSE Head(lines) \o Join(Tail(lines))

-----------------------------------------------------------------------------
\* Python dict, insertion ordered.

EmptyDict == <<>>

DictKeys(d) == {d[i][1] : i \in 1..Len(d)}

DictHas(d, k) == k \in DictKeys(d)

DictGet(d, k) == d[CHOOSE i \in 1..Len(d) : d[i][1] = k][2]

\* Mutant: a new key is put in front of the others.
DictSet_Prepend(d, k, v) ==
    IF DictHas(d, k)
    THEN [i \in 1..Len(d) |-> IF d[i][1] = k THEN <<k, v>> ELSE d[i]]
    ELSE <<<<k, v>>>> \o d

\* d[k] = v
DictSet(d, k, v) ==
    IF DictHas(d, k)
    THEN [i \in 1..Len(d) |-> IF d[i][1] = k THEN <<k, v>> ELSE d[i]]
    ELSE Append(d, <<k, v>>)

-----------------------------------------------------------------------------
\* The registry snapshot: ScriptInfo records with their ScriptParameter lists.

ScriptParameter(name, prompt, default, required, password) ==
    [name |-> name, prompt |-> prompt, default |-> default,
     required |-> required, password |-> password]

ScriptInfo(name, parameters) == [name |-> name, parameters |-> parameters]

\* get_script_list(): the sorted script names; Scripts[i] is get_script_info of
\* the i-th name.
Scripts ==
    << ScriptInfo("ConnectTenant", <<>>),
       ScriptInfo("NewUser",
           << ScriptParameter("UserPrincipalName", "User Principal Name (Email)",
                              <<>>, TRUE, FALSE),
              ScriptParameter("Notes", "Notes", <<"d">>, FALSE, FALSE) >>),
       ScriptInfo("SetPassword",
           << ScriptParameter("Password", "Password (min 8 characters)",
                              <<>>, FALSE, TRUE) >>) >>

script_list == [i \in 1..Len(Scripts) |-> Scripts[i].name]

NoScript == [name |-> "None", parameters |-> <<>>]

\* What the operator may leave in an Input widget.
EntryValues == { <<>>, <<" ">>, <<"a">>, <<" ", "a", " ">> }

-----------------------------------------------------------------------------
\* _extract_parameters. A script text is a sequence of tokens: a maximal run
\* of word characters (what \w+ matches) is one token, every other character
\* is a token of its own. The regular expressions of the source are computed
\* on the tokens.

NonWord == {"[", "]", "(", ")", ",", "=", "\"", "$", "/", "#", "-", " ", "\t", "\n"}

\* \w+ matches the token
IsWord(t) == t \notin NonWord

\* \s matches the token
IsSpace(t) == t \in Whitespace

At(text, i, t) == i \in 1..Len(text) /\ text[i] = t

WordAt(text, i) == i \in 1..Len(text) /\ IsWord(text[i])

\* The first position from i on that \s* does not take.
RECURSIVE SkipSpace(_, _)
SkipSpace(text, i) ==
    IF i \in 1..Len(text) /\ IsSpace(text[i]) THEN SkipSpace(text, i + 1) ELSE i

\* "param\s*\(", ignoring case, matches with its last word character in token i.
ParamOpens(content, i) ==
    /\ WordAt(content, i)
    /\ EndsWith(<<"p", "a", "r", "a", "m">>, Lower(Chars(content[i])))
    /\ At(content, SkipSpace(content, i + 1), "(")

\* "\n\)" matches at token j.
BlockEnds(content, j) == At(content, j, "\n") /\ At(content, j + 1, ")")

\* re.search(r'param\s*\((.*?)\n\)', content, re.DOTALL | re.IGNORECASE):
\* whether it matched, and group(1).
ParamBlock(content) ==
    LET starts == {i \in 1..Len(content) :
                      /\ ParamOpens(content, i)
                      /\ \E j \in (SkipSpace(content, i + 1) + 1)..Len(content) :
                            BlockEnds(content, j)}
    IN  IF starts = {} THEN [found |-> FALSE, block |-> <<>>]
        ELSE LET first == SkipSpace(content, Min(starts) + 1) + 1
                 end == Min({j \in first..Len(content) : BlockEnds(content, j)})
             IN  [found |-> TRUE, block |-> SubSeq(content, first, end - 1)]

\* ",\s*(?=\[)" matches at token i.
SectionBreak(block, i) ==
    At(block, i, ",") /\ At(block, SkipSpace(block, i + 1), "[")

\* re.split(r',\s*(?=\[)', param_block)
RECURSIVE SplitSections(_)
SplitSections(block) ==
    LET breaks == {i \in 1..Len(block) : SectionBreak(block, i)}
    IN  IF breaks = {} THEN <<block>>
        ELSE LET i == Min(breaks)
             IN  <<SubSeq(block, 1, i - 1)>>
                    \o SplitSections(SubSeq(block, SkipSpace(block, i + 1), Len(block)))

\* "Mandatory\s*=\s*\$(\w+)" matches with the last character of "Mandatory" in
\* token k.
MandatoryAt(section, k) ==
    /\ WordAt(section, k)
    /\ EndsWith(<<"m", "a", "n", "d", "a", "t", "o", "r", "y">>, Lower(Chars(section[k])))
    /\ LET eq == SkipSpace(section, k + 1)
       IN  /\ At(section, eq, "=")
           /\ At(section, SkipSpace(section, eq + 1), "$")
           /\ WordAt(section, SkipSpace(section, eq + 1) + 1)

\* The tokens "[^)]*" may take after "[Parameter(" at token i.
AttributeSpan(section, i) ==
    {k \in (i + 3)..Len(section) : \A j \in (i + 3)..(k - 1) : section[j] # ")"}

\* "\[Parameter\([^)]*Mandatory\s*=\s*\$(\w+)" matches from token i.
MandatoryFrom(section, i) ==
    /\ At(section, i, "[")
    /\ WordAt(section, i + 1)
    /\ Lower(Chars(section[i + 1])) = Lower(Chars("Parameter"))
    /\ At(section, i + 2, "(")
    /\ \E k \in AttributeSpan(section, i) : MandatoryAt(section, k)

\* re.search(r'\[Parameter\([^)]*Mandatory\s*=\s*\$(\w+)', section, re.IGNORECASE):
\* <<>> when there is no match, else group(1) in a one-element sequence.
MandatoryMatch(section) ==
    LET starts == {i \in 1..Len(section) : MandatoryFrom(section, i)}
    IN  IF starts = {} THEN <<>>
        ELSE LET i == Min(starts)
                 k == Max({n \in AttributeSpan(section, i) : MandatoryAt(section, n)})
             IN  <<section[SkipSpace(section, SkipSpace(section, k + 1) + 1) + 1]>>

\* "\[(\w+)\]\s*\$(\w+)" matches from token i.
TypeNameFrom(section, i) ==
    /\ At(section, i, "[")
    /\ WordAt(section, i + 1)
    /\ At(section, i + 2, "]")
    /\ At(section, SkipSpace(section, i + 3), "$")
    /\ WordAt(section, SkipSpace(section, i + 3) + 1)

\* The tokens "[^\",\n]*" takes from position v on.
RECURSIVE DefaultRun(_, _)
DefaultRun(section, v) ==
    IF v \in 1..Len(section) /\ section[v] \notin {"\"", ",", "\n"}
    THEN <<section[v]>> \o DefaultRun(section, v + 1)
    ELSE <<>>

\* "(?:\s*=\s*"?([^",\n]*)"?)?" after the name at token n: group(3), or <<>>
\* when the group did not take part (default_value or "").
DefaultValue(section, n) ==
    LET eq == SkipSpace(section, n + 1)
    IN  IF At(section, eq, "=")
        THEN LET q == SkipSpace(section, eq + 1)
             IN  DefaultRun(section, IF At(section, q, "\"") THEN q + 1 ELSE q)
        ELSE <<>>

\* re.search(r'\[(\w+)\]\s*\$(\w+)(?:\s*=\s*"?([^",\n]*)"?)?', section): <<>>
\* when there is no match, else the three groups.
TypeNameMatch(section) ==
    LET starts == {i \in 1..Len(section) : TypeNameFrom(section, i)}
    IN  IF starts = {} THEN <<>>
        ELSE LET i == Min(starts)
                 n == SkipSpace(section, i + 3) + 1
             IN  <<section[i + 1], section[n], DefaultValue(section, n)>>

\* Mutant: the type is compared as it is spelled.
IsSwitchType_CaseSensitive(param_type) == Chars(param_type) = Chars("switch")

\* "if param_type.lower() == 'switch': continue"
IsSwitchType(param_type) == Lower(Chars(param_type)) = Chars("switch")

\* "mandatory_match and mandatory_match.group(1).lower() == 'true'"
ExplicitRequired(mandatory_match) ==
    mandatory_match # <<>> /\ Lower(Chars(mandatory_match[1])) = Chars("true")

\* Mutant: the default is not trimmed before it is tested.
InferRequired_Untrimmed(default_value) == default_value = <<>>

\* "not default_value or default_value.strip() == ''"
InferRequired(default_value) == default_value = <<>> \/ Strip(default_value) = <<>>

\* "'password' in param_name.lower()"
IsPasswordName(param_name) ==
    Contains(<<"p", "a", "s", "s", "w", "o", "r", "d">>, Lower(Chars(param_name)))

\* re.sub(r'([A-Z])', r' \1', param_name)
RECURSIVE SpaceCapitals(_)
SpaceCapitals(s) ==
    IF s = <<>> THEN <<>>
    ELSE (IF \E k \in 1..Len(UpperCase) : UpperCase[k] = Head(s)
          THEN <<" ", Head(s)>> ELSE <<Head(s)>>) \o SpaceCapitals(Tail(s))

\* _param_name_to_prompt: replacements.get(spaced, spaced)
Replacements(spaced) ==
    CASE spaced = "Upn" -> "UPN (User Principal Name)"
      [] spaced = "Sku" -> "SKU"
      [] spaced = "Mfa" -> "MFA"
      [] spaced = "Display Name" -> "Display Name (Full Name)"
      [] spaced = "User Principal Name" -> "User Principal Name (Email)"
      [] spaced = "Usage Location" -> "Usage Location (2-letter country code)"
      [] spaced = "Password" -> "Password (min 8 characters)"
      [] spaced = "License Index" -> "License Index (0 to skip, or number from list)"
      [] spaced = "Target User Email" -> "Target User Email"
      [] spaced = "Mailbox Type" -> "Mailbox Type (All, UserMailbox, SharedMailbox, etc.)"
      [] OTHER -> spaced

\* _param_name_to_prompt
ParamNameToPrompt(param_name) ==
    Replacements(Join(Strip(SpaceCapitals(Chars(param_name)))))

\* _extract_parameters: the body of the loop, for one section. The result is
\* empty or holds the one parameter appended.
SectionParameters(raw) ==
    LET section == Strip(raw)
        mandatory_match == MandatoryMatch(section)
        type_name_match == TypeNameMatch(section)
    IN  IF section = <<>> \/ type_name_match = <<>> THEN <<>>
        ELSE LET param_type == type_name_match[1]
                 param_name == type_name_match[2]
                 default_value == type_name_match[3]
                 is_required == IF mandatory_match = <<>>
                                THEN InferRequired(default_value)
                                ELSE ExplicitRequired(mandatory_match)
             IN  IF IsSwitchType(param_type) THEN <<>>
                 ELSE <<ScriptParameter(param_name, ParamNameToPrompt(param_name),
                                        Strip(default_value), is_required,
                                        IsPasswordName(param_name))>>

RECURSIVE ParametersOf(_)
ParametersOf(param_sections) ==
    IF param_sections = <<>> THEN <<>>
    ELSE SectionParameters(Head(param_sections)) \o ParametersOf(Tail(param_sections))

\* _extract_parameters(content)
ExtractParameters(content) ==
    LET param_match == ParamBlock(content)
    IN  IF ~param_match.found THEN <<>>
        ELSE ParametersOf(SplitSections(param_match.block))

-----------------------------------------------------------------------------
\* The script files of a directory, as the texts the extractor is given.

Attributes == {"none", "true", "false", "True", "help_false", "position"}

\* The attribute markers in front of a declaration: none; Mandatory with
\* each literal; Mandatory spelled with spaces and a capital; Mandatory after
\* a help message that holds parentheses; an attribute without Mandatory.
AttributeTokens(a) ==
    CASE a = "none" -> <<>>
      [] a = "true" -> <<"[", "Parameter", "(", "Mandatory", "=", "$", "true", ")", "]">>
      [] a = "false" -> <<"[", "Parameter", "(", "Mandatory", "=", "$", "false", ")", "]">>
      [] a = "True" ->
            <<"[", "Parameter", "(", "Mandatory", " ", "=", " ", "$", "True", ")", "]">>
      [] a = "help_false" ->
            <<"[", "Parameter", "(", "HelpMessage", "=", "\"", "(", "a", ")", "\"", ",",
              " ", "Mandatory", "=", "$", "false", ")", "]">>
      [] a = "position" -> <<"[", "Parameter", "(", "Position", "=", "0", ")", "]">>

\* The boolean literal the attribute gives Mandatory, or "none".
AttributeLiteral(a) ==
    CASE a \in {"true", "True"} -> "true"
      [] a \in {"false", "help_false"} -> "false"
      [] OTHER -> "none"

Types == {"string", "switch", "Switch"}

Defaults == {"none", "n/a", "empty", "blank"}

\* What follows the name of a declaration: nothing, = "n/a", = "", = " ",
\* = "d".
DefaultTokens(d) ==
    CASE d = "none" -> <<>>
      [] d = "n/a" -> <<" ", "=", " ", "\"", "n", "/", "a", "\"">>
      [] d = "empty" -> <<" ", "=", " ", "\"", "\"">>
      [] d = "blank" -> <<" ", "=", " ", "\"", " ", "\"">>
      [] d = "d" -> <<" ", "=", " ", "\"", "d", "\"">>

\* The default a declaration is written with, without its quotes.
DefaultText(d) ==
    CASE d = "none" -> <<>>
      [] d = "n/a" -> <<"n", "/", "a">>
      [] d = "empty" -> <<>>
      [] d = "blank" -> <<" ">>
      [] d = "d" -> <<"d">>

Section(attribute, type, name, default) ==
    [attribute |-> attribute, type |-> type, name |-> name, default |-> default]

SectionTokens(sec) ==
    AttributeTokens(sec.attribute) \o <<"[", sec.type, "]", "$", sec.name>>
        \o DefaultTokens(sec.default)

\* The sections of a block laid out one declaration to a line, the closing
\* parenthesis on a line of its own.
RECURSIVE SectionLines(_)
SectionLines(sections) ==
    IF sections = <<>> THEN <<>>
    ELSE <<"\n", " ">> \o SectionTokens(Head(sections))
            \o (IF Tail(sections) # <<>> THEN <<",">> ELSE <<>>)
            \o SectionLines(Tail(sections))

\* The sections of a block written on one line.
RECURSIVE SectionsInline(_)
SectionsInline(sections) ==
    IF sections = <<>> THEN <<>>
    ELSE SectionTokens(Head(sections))
            \o (IF Tail(sections) # <<>> THEN <<",", " ">> ELSE <<>>)
            \o SectionsInline(Tail(sections))

Layouts == {"lines", "inline"}

\* A file of the directory: its stem, the error reading it raises ("None" when
\* it is read), and its text given by the layout and the sections of its
\* param block (layouts "described" and "none": a script of one comment line,
\* without a param block).
ScriptFile(stem, error, layout, sections) ==
    [stem |-> stem, error |-> error, layout |-> layout, sections |-> sections]

\* The lines of a text, each followed by a line feed but the last.
RECURSIVE JoinLines(_)
JoinLines(lines) ==
    IF lines = <<>> THEN <<>>
    ELSE IF Len(lines) = 1 THEN Head(lines)
    ELSE Head(lines) \o <<"\n">> \o JoinLines(Tail(lines))

\* script_path.read_text(encoding='utf-8'), as tokens
Content(file) ==
    CASE file.layout = "header" -> JoinLines(file.sections)
      [] file.layout = "lines" ->
            <<"param", "(">> \o SectionLines(file.sections) \o <<"\n", ")", "\n">>
      [] file.layout = "inline" ->
            <<"param", "(">> \o SectionsInline(file.sections) \o <<")">>
      [] file.layout = "described" ->
            <<"#", " ", "Connects", " ", "the", " ", "tenant", "\n">>
      [] OTHER -> <<"#", " ", "x", "\n">>

-----------------------------------------------------------------------------
\* _parse_script: the descriptor of one file.

\* content.split('\n'), on tokens
RECURSIVE SplitLines(_)
SplitLines(content) ==
    IF \A i \in 1..Len(content) : content[i] # "\n" THEN <<content>>
    ELSE LET n == Min({i \in 1..Len(content) : content[i] = "\n"})
         IN  <<SubSeq(content, 1, n - 1)>>
                \o SplitLines(SubSeq(content, n + 1, Len(content)))

\* stripped.lstrip('#')
RECURSIVE LStripHash(_)
LStripHash(s) == IF s # <<>> /\ Head(s) = "#" THEN LStripHash(Tail(s)) ELSE s

\* len(desc), of a text given as tokens
RECURSIVE TextLen(_)
TextLen(text) ==
    IF text = <<>> THEN 0 ELSE Len(Chars(Head(text))) + TextLen(Tail(text))

\* Mutant: a line of dashes and equals signs is taken for a description.
WithoutRules_Kept(desc) == desc

\* desc.replace('-', '').replace('=', '')
WithoutRules(desc) == SelectSeq(desc, LAMBDA t : t \notin {"-", "="})

\* The loop of _extract_first_comment over the lines it may look at:
\* <<desc>> when a line returns a description, <<>> when the loop ends or
\* breaks.
RECURSIVE FirstComment(_)
FirstComment(lines) ==
    IF lines = <<>> THEN <<>>
    ELSE LET stripped == Strip(Head(lines))
             desc == Strip(LStripHash(stripped))
         IN  IF stripped = <<>> \/ StartsWith(<<"#", "!">>, stripped)
             THEN FirstComment(Tail(lines))
             ELSE IF Head(stripped) = "#"
             THEN IF TextLen(desc) > 10 /\ Strip(WithoutRules(desc)) # <<>>
                  THEN <<Join(desc)>>
                  ELSE FirstComment(Tail(lines))
             ELSE IF StartsWith(<<"<", "#">>, stripped)
             THEN FirstComment(Tail(lines))
             ELSE <<>>

ExtractFirstComment(content, script_name) ==
    LET lines == SplitLines(content)
        found == FirstComment(SubSeq(lines, 1, Min({30, Len(lines)})))
    IN  IF found # <<>> THEN found[1] ELSE "PowerShell script: " \o script_name

\* The description overrides of the module: none.
SCRIPT_DESCRIPTIONS == EmptyDict

\* '-ListLicenses' in content or 'switch]' in content
HasSwitches(content) ==
    \E i \in 1..(Len(content) - 1) :
        \/ content[i] = "-" /\ StartsWith(Chars("ListLicenses"), Chars(content[i + 1]))
        \/ EndsWith(Chars("switch"), Chars(content[i])) /\ content[i + 1] = "]"

ScriptDescriptor(name, path, description, parameters, has_switches) ==
    [name |-> name, path |-> path, description |-> description,
     parameters |-> parameters, has_switches |-> has_switches,
     switch_description |->
        IF has_switches THEN "Supports utility switches (press 'S' for options)"
        ELSE ""]

\* "if script_name in SCRIPT_DESCRIPTIONS: ... else: ...", for the table given.
Description(table, script_name, content) ==
    IF DictHas(table, script_name)
    THEN DictGet(table, script_name)
    ELSE ExtractFirstComment(content, script_name)

\* The body of the try block, for a file that is read.
ParseScript(script_path, file) ==
    LET content == Content(file)
        script_name == file.stem
        description == Description(SCRIPT_DESCRIPTIONS, script_name, content)
    IN  ScriptDescriptor(script_name, script_path, description,
                         ExtractParameters(content), HasSwitches(content))

\* What read_text may raise: a file that cannot be read, bytes that are not
\* UTF-8.
ReadErrors == {"OSError", "UnicodeDecodeError"}

ReadErrorText(e) ==
    IF e = "OSError" THEN "[Errno 13] Permission denied"
    ELSE "'utf-8' codec can't decode byte 0xff in position 0: invalid start byte"

\* except Exception: the classes the handler of _parse_script catches.
ParseCatches_OSErrorOnly(e) == e = "OSError"

ParseCatches(e) == e \in {"OSError", "UnicodeDecodeError"}

\* script_path of a file of the directory
PathOf(dir, file) == dir.path \o "/" \o file.stem \o ".ps1"

\* script_path.stem, the key of the descriptor in self.scripts
RegistryKey_Constant(file) == "script"

RegistryKey(file) == file.stem

-----------------------------------------------------------------------------
\* The directories discovery is run on.

FirstSections ==
    { Section(a, t, n, d) :
        a \in Attributes, t \in Types, n \in {"UserPrincipalName", "AdminPASSWORD"},
        d \in Defaults }

\* What follows the first declaration: nothing, a switch, a defaulted string.
RestSections ==
    { <<>>,
      <<Section("none", "switch", "Force", "none")>>,
      <<Section("none", "string", "Notes", "n/a")>> }

\* File A.ps1: a param block of one or two declarations in either layout.
FilesA ==
    { ScriptFile("A", "None", layout, <<first>> \o rest) :
        layout \in Layouts, first \in FirstSections, rest \in RestSections }

\* File B.ps1: a script with a described purpose and no param block, one
\* with a short comment only, one whose param block declares the same
\* parameter twice, or a file that cannot be read.
FilesB ==
    { ScriptFile("B", "None", "described", <<>>), ScriptFile("B", "None", "none", <<>>),
      ScriptFile("B", "None", "lines",
          << Section("none", "string", "Notes", "n/a"),
             Section("none", "string", "Notes", "n/a") >>) }
        \cup { ScriptFile("B", e, "none", <<>>) : e \in ReadErrors }

\* The lines the head of a script is made of: blank lines, an interpreter
\* line, comments of 10, 12 and 19 characters, rules with and without a space
\* in them, the opening of a block comment with and without text, a
\* statement.
HeadLines ==
    { <<>>, <<" ">>,
      <<"#", "!", "/", "pwsh">>,
      <<"#", " ", "tenant", " ", "the">>,
      <<"#", " ", "Connects", " ", "the">>,
      <<" ", "#", "#", " ", "Connects", " ", "the", " ", "tenant", " ">>,
      <<"#", "-", "-", "-", "-", "-", "-", "=", "=", "=", "=", "=", "=">>,
      <<"#", " ", "-", "-", "-", "-", "-", " ", "=", "=", "=", "=", "=">>,
      <<"<", "#">>,
      <<"<", "#", " ", "Connects", " ", "the", " ", "tenant">>,
      <<"$", "tenant">> }

\* Blank lines before the head: none, or as many as put the head on line 30
\* and on line 31.
LeadingBlankLines == {0, 29, 30}

RECURSIVE HeadsOf(_)
HeadsOf(n) ==
    IF n = 0 THEN { <<>> }
    ELSE HeadsOf(n - 1) \cup
            { Append(head, line) : head \in HeadsOf(n - 1), line \in HeadLines }

\* File B.ps1 with a head and no param block.
HeadFiles ==
    { ScriptFile("B", "None", "header", [i \in 1..blank |-> <<>>] \o head) :
        blank \in LeadingBlankLines, head \in HeadsOf(MaxHeaderLines) }

Directory(path, exists, files) == [path |-> path, exists |-> exists, files |-> files]

\* The Scripts directory the application model runs on.
AppFiles ==
    { ScriptFile("ConnectTenant", "None", "described", <<>>),
      ScriptFile("NewUser", "None", "lines",
          << Section("true", "string", "UserPrincipalName", "none"),
             Section("none", "string", "Notes", "d") >>),
      ScriptFile("SetPassword", "None", "lines",
          << Section("false", "string", "Password", "none") >>) }

AppDirectory == Directory("Scripts", TRUE, AppFiles)

Directories ==
    { Directory("Scripts", TRUE, {a} \cup bs) : a \in FilesA, bs \in {{}} \cup {{b} : b \in FilesB} }
        \cup { Directory("Scripts", TRUE, bs) : bs \in {{}} \cup {{b} : b \in FilesB} }
        \cup { AppDirectory, Directory("Scripts", FALSE, {}) }

-----------------------------------------------------------------------------
\* ParameterInputModal.

\* compose(): the initial value of each Input widget, keyed by parameter name.
ComposeInputValue(param, existing_values) ==
    IF DictHas(existing_values, param.name) THEN DictGet(existing_values, param.name)
    ELSE IF param.default # <<>> THEN param.default
    ELSE <<>>

\* self.input_widgets after compose(): a later parameter of the same name
\* replaces the earlier widget.
ComposeInputs(parameters, existing_values) ==
    [n \in {parameters[i].name : i \in 1..Len(parameters)} |->
        LET last == CHOOSE i \in 1..Len(parameters) :
                        /\ parameters[i].name = n
                        /\ \A j \in (i + 1)..Len(parameters) : parameters[j].name # n
        IN  ComposeInputValue(parameters[last], existing_values)]

\* Mutant: the entry is not trimmed.
ResolvedValue_Untrimmed(param, widgets) ==
    LET value == widgets[param.name]
    IN  IF value = <<>> /\ param.default # <<>> THEN param.default ELSE value

\* on_button_pressed: the value one parameter resolves to.
ResolvedValue(param, widgets) ==
    LET value == Strip(widgets[param.name])
    IN  IF value = <<>> /\ param.default # <<>> THEN param.default ELSE value

\* on_button_pressed: the values dict built by the loop over the parameters.
RECURSIVE CollectValues(_, _, _)
CollectValues(parameters, widgets, n) ==
    IF n = 0 THEN EmptyDict
    ELSE LET before == CollectValues(parameters, widgets, n - 1)
             value == ResolvedValue(parameters[n], widgets)
         IN  IF value # <<>> THEN DictSet(before, parameters[n].name, value) ELSE before

PromptOrName(param) == IF param.prompt # "" THEN param.prompt ELSE param.name

\* Mutant: the required check reads the raw widget text, not the resolved value.
RECURSIVE MissingRequired_RawText(_, _, _)
MissingRequired_RawText(parameters, widgets, n) ==
    IF n = 0 THEN <<>>
    ELSE LET before == MissingRequired_RawText(parameters, widgets, n - 1)
         IN  IF widgets[parameters[n].name] = <<>> /\ parameters[n].default = <<>>
                /\ parameters[n].required
             THEN Append(before, PromptOrName(parameters[n]))
             ELSE before

\* on_button_pressed: the missing_required list built by the same loop.
RECURSIVE MissingRequired(_, _, _)
MissingRequired(parameters, widgets, n) ==
    IF n = 0 THEN <<>>
    ELSE LET before == MissingRequired(parameters, widgets, n - 1)
             value == ResolvedValue(parameters[n], widgets)
         IN  IF value = <<>> /\ parameters[n].required
             THEN Append(before, PromptOrName(parameters[n]))
             ELSE before

\* Mutant: the "return" after the notification is lost.
SubmitDismisses_Always(missing_required) == TRUE

\* on_button_pressed: the modal is dismissed only when nothing is missing.
SubmitDismisses(missing_required) == missing_required = <<>>

-----------------------------------------------------------------------------
\* ConfirmationModal: compose().

\* The text shown in place of a masked value.
Mask == "********"

\* Mutant: the mask test compares the key as it is spelled.
MaskedKey_CaseSensitive(key) ==
    Contains(<<"p", "a", "s", "s", "w", "o", "r", "d">>, Chars(key))

\* compose(): "password" in key.lower()
MaskedKey(key) ==
    Contains(<<"p", "a", "s", "s", "w", "o", "r", "d">>, Lower(Chars(key)))

\* compose(): param_lines, each line as its key and its display_value.
ConfirmationLines(parameters) ==
    [i \in 1..Len(parameters) |->
        <<parameters[i][1],
          IF MaskedKey(parameters[i][1]) THEN Mask ELSE Join(parameters[i][2])>>]

-----------------------------------------------------------------------------
\* The child process and its pipes.

\* A line longer than the 64 KiB limit of the asyncio StreamReader.
LongLine == "<line over 64 KiB>\n"

\* Lines (bytes) a child may write to its standard output; the second holds an
\* invalid UTF-8 byte.
StdoutLines == {"OK\n", "bad<ff>\n", LongLine}

\* Lines (bytes) a child may write to its standard error.
StderrLines == {"bad token\n"}

\* line.decode('utf-8', errors='replace')
Decode(line) == IF line = "bad<ff>\n" THEN "bad<U+FFFD>\n" ELSE line

DecodeAll(lines) == [i \in 1..Len(lines) |-> Decode(lines[i])]

ExitCodes == {0, 1, -9}

NoChild ==
    [state |-> "none", stdin |-> "None", wrote_out |-> <<>>, wrote_err |-> <<>>,
     out_open |-> FALSE, err_open |-> FALSE, code |-> <<>>]

\* The exclusive workers that spawn a child.
UtilityWorkers == {"run_list_licenses", "run_connect_graph", "run_connect_exchange"}

\* Mutant: the connect workers leave the child the terminal as standard input.
SpawnStdin_ConnectInherits(w) ==
    IF w \in {"run_connect_graph", "run_connect_exchange"} THEN "inherit" ELSE "DEVNULL"

\* The stdin= argument of each asyncio.create_subprocess_exec call.
SpawnStdin(w) ==
    CASE w = "run_script_workflow" -> "DEVNULL"
      [] w = "run_list_licenses" -> "DEVNULL"
      [] w = "run_connect_graph" -> "DEVNULL"
      [] w = "run_connect_exchange" -> "DEVNULL"

\* The child create_subprocess_exec returns, stdout and stderr being pipes.
NewChild(w) ==
    [state |-> "running", stdin |-> SpawnStdin(w), wrote_out |-> <<>>,
     wrote_err |-> <<>>, out_open |-> TRUE, err_open |-> TRUE, code |-> <<>>]

\* What asyncio.create_subprocess_exec may do: start the child, or raise.
SpawnResults == {"ok", "FileNotFoundError", "PermissionError"}

\* str(e) of the exception create_subprocess_exec or readline() raised.
ExceptionText(e) ==
    IF e = "FileNotFoundError" THEN "[Errno 2] No such file or directory: 'pwsh'"
    ELSE IF e = "PermissionError" THEN "[Errno 13] Permission denied: 'pwsh'"
    ELSE "Separator is found, but chunk is longer than limit"

-----------------------------------------------------------------------------
\* The state of the application.

VARIABLES
    selected_index,        \* M365AdminTUI.selected_index (0-based)
    current_script_info,   \* M365AdminTUI.current_script_info
    current_input_params,  \* M365AdminTUI.current_input_params
    awaiting_input,        \* M365AdminTUI.awaiting_input
    pc,                    \* where the live worker is suspended
    input_widgets,         \* ParameterInputModal.input_widgets: name -> Input.value
    result_values,         \* collect_parameters_enhanced: result["values"]
    confirm,               \* ConfirmationModal: parameters and result
    params,                \* execute_script_direct: params
    cmd,                   \* execute_script_direct: cmd
    child,                 \* execute_script_direct: process
    stdout_data,           \* execute_script_direct: stdout_data
    stderr_data,           \* execute_script_direct: stderr_data
    out_eof,               \* read_stream(process.stdout, ...) has returned
    err_eof,               \* read_stream(process.stderr, ...) has returned
    returncode,            \* execute_script_direct: returncode, <<>> until observed
    stream_error,          \* the exception a reader raised into the gather, or "None"
    output,                \* the #output-content panel
    notification,          \* the last self.notify(...)
    orphans,               \* running children whose worker was cancelled
    worker                 \* the exclusive worker started last; it is live while pc # "idle"

\* Discovery, ScriptRegistry(scripts_dir): the registry object under
\* construction and the one constructed before it over the same directory.
VARIABLES
    scripts_dir,           \* ScriptRegistry.scripts_dir: the directory and its *.ps1 files
    reg_pc,                \* where the constructor is: "new", "discovering", "done", "raised"
    glob_pending,          \* the files scripts_dir.glob("*.ps1") has yet to yield
    scripts,               \* ScriptRegistry.scripts of the registry under construction
    previous_scripts,      \* ScriptRegistry.scripts of the registry constructed before
    printed                \* the lines print() has written

app_vars == <<selected_index, current_script_info, current_input_params, awaiting_input>>
modal_vars == <<input_widgets, result_values, confirm>>
exec_vars ==
    <<params, cmd, child, stdout_data, stderr_data, out_eof, err_eof, returncode,
      stream_error>>
ui_vars == <<output, notification>>

tui_vars == <<app_vars, modal_vars, exec_vars, ui_vars, pc, orphans, worker>>
registry_vars == <<scripts_dir, reg_pc, glob_pending, scripts, previous_scripts, printed>>

vars == <<tui_vars, registry_vars>>

\* None where a dict is expected: no dict of the program has the key "None".
NoValues == << <<"None", <<>>>> >>
NoConfirm == [parameters |-> NoValues, lines |-> <<>>, result |-> "None"]
NoCmd == <<>>

Panel(classes, title, error_text, text) ==
    [classes |-> classes, title |-> title, error_text |-> error_text, text |-> text]

Notify(message, detail, severity) ==
    [message |-> message, detail |-> detail, severity |-> severity]

\* Mutant: the App's key bindings stay active under a modal screen.
ModalOpen_Never == FALSE

\* A modal screen is on top of the screen stack: the App's key bindings
\* (s, up, down, enter) are not in the binding chain of a ModalScreen.
ModalOpen == pc \in {"collecting", "confirming", "switches"}

\* The worker is inside execute_script_direct with a child it owns.
Executing == pc \in {"streaming", "waiting"}

\* list[index] of a Python list, in a sequence of none or one element: a
\* negative index counts from the end, <<>> stands for IndexError.
GetItem(list, index) ==
    IF 0 <= index /\ index < Len(list) THEN <<list[index + 1]>>
    ELSE IF index < 0 /\ -index <= Len(list) THEN <<list[Len(list) + index + 1]>>
    ELSE <<>>

\* on_mount: "if self.script_list: self._show_script_description()".
MountedPanel(infos) ==
    IF Len(infos) > 0
    THEN Panel("output-info", "Script", "", infos[1].name)
    ELSE Panel("output-ready", "Ready", "", "")

\* M365AdminTUI.__init__ and on_mount over the script list of its registry,
\* given as the ScriptInfo of each name in script_list.
InitAppOver(infos) ==
    /\ selected_index = 0
    /\ current_script_info = NoScript
    /\ current_input_params = EmptyDict
    /\ awaiting_input = FALSE
    /\ pc = "idle"
    /\ input_widgets = <<>>
    /\ result_values = NoValues
    /\ confirm = NoConfirm
    /\ params = NoValues
    /\ cmd = NoCmd
    /\ child = NoChild
    /\ stdout_data = <<>>
    /\ stderr_data = <<>>
    /\ out_eof = FALSE
    /\ err_eof = FALSE
    /\ returncode = <<>>
    /\ stream_error = "None"
    /\ output = MountedPanel(infos)
    /\ notification = Notify("None", <<>>, "None")
    /\ orphans = 0
    /\ worker = "None"

InitApp == InitAppOver(Scripts)

\* None where the scripts of a registry are expected.
NoRegistry == << <<"None", NoScript>> >>

\* The registry the application constructed over its Scripts directory, the
\* files enumerated in the order of their names.
AppRegistry ==
    LET names == Sorted({file.stem : file \in AppFiles})
    IN  [i \in 1..Len(names) |->
            LET file == CHOOSE f \in AppFiles : f.stem = names[i]
            IN  <<RegistryKey(file), ParseScript(PathOf(AppDirectory, file), file)>>]

Init ==
    /\ InitApp
    /\ scripts_dir = AppDirectory
    /\ reg_pc = "done"
    /\ glob_pending = {}
    /\ scripts = AppRegistry
    /\ previous_scripts = NoRegistry
    /\ printed = <<>>

-----------------------------------------------------------------------------
\* Navigation.

\* _show_script_description over the script list infos: nothing is shown for
\* an empty list; an index out of range raises IndexError in the handler,
\* which ends the application.
ShowScriptDescription(infos, index) ==
    IF infos = <<>>
    THEN UNCHANGED <<output, pc>>
    ELSE IF GetItem(infos, index) = <<>>
    THEN pc' = "crashed" /\ UNCHANGED output
    ELSE /\ output' = Panel("output-info", "Script", "", GetItem(infos, index)[1].name)
         /\ UNCHANGED pc

CursorUp(infos) ==
    /\ ~ModalOpen
    /\ pc # "crashed"
    /\ UNCHANGED registry_vars
    /\ ~awaiting_input
    /\ selected_index > 0
    /\ selected_index' = selected_index - 1
    /\ ShowScriptDescription(infos, selected_index')
    /\ UNCHANGED <<current_script_info, current_input_params, awaiting_input,
                   modal_vars, exec_vars, notification, orphans, worker>>

\* Mutant: the selection may move one place past the last script.
LastIndex_Length(list) == Len(list)

\* "len(self.script_list) - 1"
LastIndex(list) == Len(list) - 1

CursorDown(infos) ==
    /\ ~ModalOpen
    /\ pc # "crashed"
    /\ UNCHANGED registry_vars
    /\ ~awaiting_input
    /\ selected_index < LastIndex(infos)
    /\ selected_index' = selected_index + 1
    /\ ShowScriptDescription(infos, selected_index')
    /\ UNCHANGED <<current_script_info, current_input_params, awaiting_input,
                   modal_vars, exec_vars, notification, orphans, worker>>

action_cursor_up == CursorUp(Scripts)

action_cursor_down == CursorDown(Scripts)

-----------------------------------------------------------------------------
\* execute_script_direct, up to its first suspension.

RECURSIVE ParamArgs(_)
ParamArgs(p) ==
    IF p = <<>> THEN <<>>
    ELSE <<"-" \o Head(p)[1], Join(Head(p)[2])>> \o ParamArgs(Tail(p))

\* cmd = ["pwsh", "-NoProfile", "-NonInteractive", "-File", path] + "-Name value" pairs
BuildCmd(script_info, p) ==
    <<"pwsh", "-NoProfile", "-NonInteractive", "-File",
      "Scripts/" \o script_info.name \o ".ps1">> \o ParamArgs(p)

\* Mutant: the except branch shows no message.
ExceptionPanel_NoMessage(e) == Panel("output-error", "Error executing script", "", "")

\* The except branch of execute_script_direct.
ExceptionPanel(e) == Panel("output-error", "Error executing script", ExceptionText(e), "")

ExecuteScriptDirect(script_info, p) ==
    /\ params' = p
    /\ cmd' = BuildCmd(script_info, p)
    /\ stdout_data' = <<>>
    /\ stderr_data' = <<>>
    /\ out_eof' = FALSE
    /\ err_eof' = FALSE
    /\ returncode' = <<>>
    /\ stream_error' = "None"
    /\ \E spawn \in SpawnResults :
        IF spawn = "ok"
        THEN /\ child' = NewChild("run_script_workflow")
             /\ pc' = "streaming"
             /\ output' = Panel("output-running", "Executing", "", "Starting...")
             /\ notification' = Notify("Running", <<script_info.name>>, "information")
        ELSE /\ child' = NoChild
             /\ pc' = "idle"
             /\ output' = ExceptionPanel(spawn)
             /\ notification' = Notify("Error", <<ExceptionText(spawn)>>, "error")

-----------------------------------------------------------------------------
\* The exclusive worker run_script_workflow.

\* Mutant: the shortcut for a script without parameters is lost.
HasNoParameters_Never(script_info) == FALSE

\* run_script_workflow: "if not script_info.parameters".
HasNoParameters(script_info) == script_info.parameters = <<>>

\* @work(exclusive=True): starting the worker cancels the one that is running.
\* A cancelled worker that had spawned a child leaves it, if it is still
\* running, without an owner; so does an invocation a reader's exception ended,
\* whose other reader is not followed any further once a new worker starts.
OrphansAfterCancel ==
    IF child.state = "running" THEN orphans + 1 ELSE orphans

\* Mutant: the value map of the invocation before is kept.
InitialInputParams_Kept == current_input_params

\* run_script_workflow: "self.current_input_params = {}".
InitialInputParams == EmptyDict

RunScriptWorkflow(script_info) ==
    /\ current_script_info' = script_info
    /\ current_input_params' = InitialInputParams
    /\ result_values' = NoValues
    /\ confirm' = NoConfirm
    /\ IF HasNoParameters(script_info)
       THEN /\ ExecuteScriptDirect(script_info, EmptyDict)
            /\ input_widgets' = <<>>
       ELSE /\ pc' = "collecting"
            /\ input_widgets' = ComposeInputs(script_info.parameters, current_input_params')
            /\ params' = NoValues
            /\ cmd' = NoCmd
            /\ child' = NoChild
            /\ stdout_data' = <<>>
            /\ stderr_data' = <<>>
            /\ out_eof' = FALSE
            /\ err_eof' = FALSE
            /\ returncode' = <<>>
            /\ stream_error' = "None"
            /\ UNCHANGED ui_vars

\* action_execute_script over the script list infos:
\* "script_name = self.script_list[self.selected_index]" raises IndexError for
\* an index out of range.
ExecuteScript(infos) ==
    /\ ~ModalOpen
    /\ pc # "crashed"
    /\ UNCHANGED registry_vars
    /\ ~awaiting_input
    /\ IF Len(infos) = 0
       THEN /\ notification' = Notify("No scripts available", <<>>, "error")
            /\ UNCHANGED <<app_vars, modal_vars, exec_vars, output, pc, orphans, worker>>
       ELSE IF GetItem(infos, selected_index) = <<>>
       THEN /\ pc' = "crashed"
            /\ UNCHANGED <<app_vars, modal_vars, exec_vars, ui_vars, orphans, worker>>
       ELSE /\ orphans' = OrphansAfterCancel
            /\ orphans' <= MaxOrphans
            /\ worker' = "run_script_workflow"
            /\ RunScriptWorkflow(GetItem(infos, selected_index)[1])
            /\ UNCHANGED <<selected_index, awaiting_input>>

action_execute_script == ExecuteScript(Scripts)

-----------------------------------------------------------------------------
\* The switches menu and the utility workers, up to their first suspension.

\* action_open_switches: the exclusive worker open_switches_menu pushes the
\* SwitchesModal and waits for its result.
action_open_switches ==
    /\ ~ModalOpen
    /\ UNCHANGED registry_vars
    /\ orphans' = OrphansAfterCancel
    /\ orphans' <= MaxOrphans
    /\ worker' = "open_switches_menu"
    /\ pc' = "switches"
    /\ input_widgets' = <<>>
    /\ result_values' = NoValues
    /\ confirm' = NoConfirm
    /\ params' = NoValues
    /\ cmd' = NoCmd
    /\ child' = NoChild
    /\ stdout_data' = <<>>
    /\ stderr_data' = <<>>
    /\ out_eof' = FALSE
    /\ err_eof' = FALSE
    /\ returncode' = <<>>
    /\ stream_error' = "None"
    /\ UNCHANGED <<app_vars, ui_vars>>

SwitchKeys == {"escape", "l", "m", "e"}

\* SwitchesModal: the value each key binding dismisses the modal with.
SwitchResult(key) ==
    CASE key = "l" -> "list_licenses"
      [] key = "m" -> "connect_graph"
      [] key = "e" -> "connect_exchange"
      [] OTHER -> "None"

\* open_switches_menu: the worker started for the result of the modal.
SwitchWorker(result) ==
    CASE result = "list_licenses" -> "run_list_licenses"
      [] result = "connect_graph" -> "run_connect_graph"
      [] result = "connect_exchange" -> "run_connect_exchange"
      [] OTHER -> "None"

\* Mutant: every utility worker runs its target without the flag.
UtilityCmd_NoFlag(w) ==
    <<"pwsh", "-NoProfile", "-NonInteractive", "-File", "Scripts/MgGraphUserCreation.ps1">>

\* The argument list of create_subprocess_exec in each utility worker.
UtilityCmd(w) ==
    CASE w = "run_list_licenses" ->
            <<"pwsh", "-NoProfile", "-NonInteractive", "-File",
              "Scripts/MgGraphUserCreation.ps1", "-ListLicenses">>
      [] w = "run_connect_graph" ->
            <<"pwsh", "-NoProfile", "-NonInteractive", "-Command", "Connect-MgGraph">>
      [] w = "run_connect_exchange" ->
            <<"pwsh", "-NoProfile", "-NonInteractive", "-Command", "Connect-ExchangeOnline">>

\* The panel each utility worker shows before it spawns.
StartPanel(w) ==
    CASE w = "run_list_licenses" ->
            Panel("output-running", "Listing available licenses", "",
                  "Connecting to Microsoft Graph...")
      [] w = "run_connect_graph" ->
            Panel("output-running", "Connecting to Microsoft Graph", "",
                  "Please authenticate when prompted...")
      [] w = "run_connect_exchange" ->
            Panel("output-running", "Connecting to Exchange Online", "",
                  "Please authenticate when prompted...")

\* The except branch of the utility workers.
UtilityExceptionPanel(e) == Panel("output-error", "Error", ExceptionText(e), "")

\* run_list_licenses, run_connect_graph, run_connect_exchange.
RunUtility(w) ==
    /\ worker' = w
    /\ params' = NoValues
    /\ cmd' = UtilityCmd(w)
    /\ stdout_data' = <<>>
    /\ stderr_data' = <<>>
    /\ out_eof' = FALSE
    /\ err_eof' = FALSE
    /\ returncode' = <<>>
    /\ stream_error' = "None"
    /\ \E spawn \in SpawnResults :
        IF spawn = "ok"
        THEN /\ child' = NewChild(w)
             /\ pc' = "streaming"
             /\ output' = StartPanel(w)
             /\ notification' = Notify("Starting", <<w>>, "information")
        ELSE /\ child' = NoChild
             /\ pc' = "idle"
             /\ output' = UtilityExceptionPanel(spawn)
             /\ notification' = Notify("Error", <<ExceptionText(spawn)>>, "error")

\* A key in the SwitchesModal, and open_switches_menu resumed with the result.
on_switch_key(key) ==
    /\ pc = "switches"
    /\ UNCHANGED registry_vars
    /\ LET w == SwitchWorker(SwitchResult(key))
       IN  IF w = "None"
           THEN /\ pc' = "idle"
                /\ UNCHANGED <<app_vars, modal_vars, exec_vars, ui_vars, orphans, worker>>
           ELSE /\ RunUtility(w)
                /\ UNCHANGED <<app_vars, modal_vars, orphans>>

-----------------------------------------------------------------------------
\* ParameterInputModal: the operator edits a field, presses a button.

TypeInput ==
    /\ pc = "collecting"
    /\ UNCHANGED registry_vars
    /\ \E n \in DOMAIN input_widgets, v \in EntryValues :
        /\ input_widgets[n] # v
        /\ input_widgets' = [input_widgets EXCEPT ![n] = v]
    /\ UNCHANGED <<app_vars, result_values, confirm, exec_vars, ui_vars, pc, orphans, worker>>

CancelledPanel == Panel("output-info", "Cancelled", "", "Script execution cancelled.")

\* collect_parameters_enhanced: both "cancelled" branches.
Cancelled ==
    /\ output' = CancelledPanel
    /\ notification' = Notify("Cancelled", <<>>, "information")
    /\ pc' = "idle"

\* on_button_pressed, execute-btn, and what collect_parameters_enhanced does
\* with the result up to its next suspension.
on_button_pressed_execute ==
    /\ pc = "collecting"
    /\ UNCHANGED registry_vars
    /\ LET parameters == current_script_info.parameters
           values == CollectValues(parameters, input_widgets, Len(parameters))
           missing_required == MissingRequired(parameters, input_widgets, Len(parameters))
       IN  IF SubmitDismisses(missing_required)
           THEN /\ result_values' = values
                /\ confirm' = [parameters |-> values,
                               lines |-> ConfirmationLines(values),
                               result |-> "None"]
                /\ input_widgets' = <<>>
                /\ pc' = "confirming"
                /\ UNCHANGED <<app_vars, exec_vars, ui_vars, orphans, worker>>
           ELSE /\ notification' = Notify("Missing required", missing_required, "error")
                /\ UNCHANGED <<app_vars, modal_vars, exec_vars, output, pc, orphans, worker>>

\* on_button_pressed, cancel-btn.
on_button_pressed_cancel ==
    /\ pc = "collecting"
    /\ UNCHANGED registry_vars
    /\ input_widgets' = <<>>
    /\ Cancelled
    /\ UNCHANGED <<app_vars, result_values, confirm, exec_vars, orphans, worker>>

-----------------------------------------------------------------------------
\* ConfirmationModal.

ConfirmKeys == {"enter", "r", "escape"}

\* ConfirmationModal.on_key: self.result for the key.
KeyResult(key) ==
    IF key = "enter" THEN "execute" ELSE IF key = "r" THEN "retry" ELSE "cancel"

\* Mutant: everything but "retry" executes.
ConfirmBranch_CancelExecutes(confirm_result) ==
    IF confirm_result = "retry" THEN "retry" ELSE "execute"

\* collect_parameters_enhanced: the branch taken on confirm_result.
ConfirmBranch(confirm_result) ==
    IF confirm_result = "execute" THEN "execute"
    ELSE IF confirm_result = "retry" THEN "retry"
    ELSE "cancel"

\* Mutant: the map of the previous retry round is executed.
ExecuteParams_Stale == current_input_params

\* collect_parameters_enhanced: the map handed to execute_script_direct.
ExecuteParams == result_values

\* Mutant: retry does not keep the submitted values.
RetryParams_Dropped == current_input_params

\* collect_parameters_enhanced: the map kept for the next input modal.
RetryParams == result_values

on_key(key) ==
    /\ pc = "confirming"
    /\ UNCHANGED registry_vars
    /\ confirm' = [confirm EXCEPT !.result = KeyResult(key)]
    /\ LET branch == ConfirmBranch(KeyResult(key))
       IN  CASE branch = "execute" ->
                    /\ ExecuteScriptDirect(current_script_info, ExecuteParams)
                    /\ UNCHANGED <<app_vars, input_widgets, result_values, orphans, worker>>
             [] branch = "retry" ->
                    /\ current_input_params' = RetryParams
                    /\ input_widgets' = ComposeInputs(current_script_info.parameters,
                                                      current_input_params')
                    /\ pc' = "collecting"
                    /\ UNCHANGED <<selected_index, current_script_info, awaiting_input,
                                   result_values, exec_vars, ui_vars, orphans, worker>>
             [] OTHER ->
                    /\ Cancelled
                    /\ UNCHANGED <<app_vars, input_widgets, result_values, exec_vars,
                                   orphans, worker>>

-----------------------------------------------------------------------------
\* The child process of the running invocation.

\* No reader gets past a line over the limit: what the child writes to its
\* standard output after one is read by nobody and is not followed.
ChildWrites(max_lines) ==
    /\ child.state = "running"
    /\ UNCHANGED registry_vars
    /\ child.out_open
    /\ Len(child.wrote_out) < max_lines
    /\ \A i \in 1..Len(child.wrote_out) : child.wrote_out[i] # LongLine
    /\ \E line \in StdoutLines : child' = [child EXCEPT !.wrote_out = Append(@, line)]
    /\ UNCHANGED <<app_vars, modal_vars, params, cmd, stream_error, stdout_data, stderr_data,
                   out_eof, err_eof, returncode, ui_vars, pc, orphans, worker>>

ChildWriteStdout == ChildWrites(MaxLines)

ChildWriteStderr ==
    /\ child.state = "running"
    /\ UNCHANGED registry_vars
    /\ child.err_open
    /\ Len(child.wrote_err) < MaxErrLines
    /\ \E line \in StderrLines : child' = [child EXCEPT !.wrote_err = Append(@, line)]
    /\ UNCHANGED <<app_vars, modal_vars, params, cmd, stream_error, stdout_data, stderr_data,
                   out_eof, err_eof, returncode, ui_vars, pc, orphans, worker>>

\* The child closes one of its streams and goes on running.
ChildClose ==
    /\ child.state = "running"
    /\ UNCHANGED registry_vars
    /\ \/ child.out_open /\ child' = [child EXCEPT !.out_open = FALSE]
       \/ child.err_open /\ child' = [child EXCEPT !.err_open = FALSE]
    /\ UNCHANGED <<app_vars, modal_vars, params, cmd, stream_error, stdout_data, stderr_data,
                   out_eof, err_eof, returncode, ui_vars, pc, orphans, worker>>

\* The child exits: its ends of both pipes are closed.
ChildExit ==
    /\ child.state = "running"
    /\ UNCHANGED registry_vars
    /\ \E code \in ExitCodes :
        child' = [child EXCEPT !.state = "exited", !.out_open = FALSE,
                               !.err_open = FALSE, !.code = <<code>>]
    /\ UNCHANGED <<app_vars, modal_vars, params, cmd, stream_error, stdout_data, stderr_data,
                   out_eof, err_eof, returncode, ui_vars, pc, orphans, worker>>

\* A child without an owner exits on its own.
OrphanExit ==
    /\ orphans > 0
    /\ UNCHANGED registry_vars
    /\ orphans' = orphans - 1
    /\ UNCHANGED <<app_vars, modal_vars, exec_vars, ui_vars, pc, worker>>

-----------------------------------------------------------------------------
\* execute_script_direct: the two readers, the gather, the wait.

\* read_stream: "if len(data_list) % 5 == 0 or is_stderr" in
\* execute_script_direct, "% 3" in run_list_licenses, "% 2" in the connect
\* workers.
SnapshotEvery(w) ==
    CASE w = "run_script_workflow" -> 5
      [] w = "run_list_licenses" -> 3
      [] OTHER -> 2

PublishesSnapshot(data_list, is_stderr) ==
    \/ Len(data_list) % SnapshotEvery(worker) = 0
    \/ worker = "run_script_workflow" /\ is_stderr

\* Mutant: the snapshot shows the line read last only.
CurrentOutput_LastLine(out_lines, err_lines) ==
    IF err_lines # <<>> THEN err_lines[Len(err_lines)]
    ELSE IF out_lines # <<>> THEN out_lines[Len(out_lines)]
    ELSE ""

\* read_stream: current_output of the live snapshot; the utility workers show
\* the stdout lines only.
CurrentOutput(out_lines, err_lines) ==
    IF worker = "run_script_workflow"
    THEN Join(out_lines) \o
           (IF err_lines # <<>> THEN "\n\n[Warnings/Errors]\n" \o Join(err_lines) ELSE "")
    ELSE Join(out_lines)

LivePanel(out_lines, err_lines) ==
    [output EXCEPT !.title = "Running", !.error_text = "",
                   !.text = CurrentOutput(out_lines, err_lines)]

\* readline() raises ValueError on a line over the limit of the StreamReader.
ReadlineRaises(line) == line = LongLine

\* The except branch of the worker that is running.
StreamExceptionPanel(e) ==
    IF worker = "run_script_workflow" THEN ExceptionPanel(e) ELSE UtilityExceptionPanel(e)

\* read_stream(process.stdout, stdout_data): one readline(). An exception it
\* raises leaves the gather at once and is handled by the except branch; the
\* other reader is not cancelled.
read_stdout ==
    /\ pc = "streaming"
    /\ UNCHANGED registry_vars
    /\ ~out_eof
    /\ IF Len(stdout_data) < Len(child.wrote_out)
       THEN LET line == child.wrote_out[Len(stdout_data) + 1]
            IN  IF ReadlineRaises(line)
                THEN /\ stream_error' = "ValueError"
                     /\ output' = StreamExceptionPanel("ValueError")
                     /\ notification' = Notify("Error", <<ExceptionText("ValueError")>>,
                                               "error")
                     /\ pc' = "idle"
                     /\ UNCHANGED <<stdout_data, out_eof>>
                ELSE /\ stdout_data' = Append(stdout_data, Decode(line))
                     /\ output' = IF PublishesSnapshot(stdout_data', FALSE)
                                  THEN LivePanel(stdout_data', stderr_data)
                                  ELSE output
                     /\ UNCHANGED <<out_eof, stream_error, notification, pc>>
       ELSE /\ ~child.out_open
            /\ out_eof' = TRUE
            /\ UNCHANGED <<stdout_data, output, stream_error, notification, pc>>
    /\ UNCHANGED <<app_vars, modal_vars, params, cmd, child, stderr_data, err_eof,
                   returncode, orphans, worker>>

\* The stderr reader runs on after the exception of the stdout reader ended
\* the invocation.
StderrReaderLive == pc = "streaming" \/ (pc = "idle" /\ stream_error # "None")

\* read_stream(process.stderr, stderr_data, True): one readline().
read_stderr ==
    /\ StderrReaderLive
    /\ UNCHANGED registry_vars
    /\ ~err_eof
    /\ IF Len(stderr_data) < Len(child.wrote_err)
       THEN /\ stderr_data' = Append(stderr_data, Decode(child.wrote_err[Len(stderr_data) + 1]))
            /\ output' = IF PublishesSnapshot(stderr_data', TRUE)
                         THEN LivePanel(stdout_data, stderr_data')
                         ELSE output
            /\ UNCHANGED err_eof
       ELSE /\ ~child.err_open
            /\ err_eof' = TRUE
            /\ UNCHANGED <<stderr_data, output>>
    /\ UNCHANGED <<app_vars, modal_vars, params, cmd, stream_error, child, stdout_data, out_eof,
                   returncode, notification, pc, orphans, worker>>

\* Mutant: the gather is given up once the stdout reader has returned.
GatherComplete_StdoutOnly == out_eof

\* Mutant: the exit status is awaited without draining the streams.
GatherComplete_NoDrain == TRUE

\* "await asyncio.gather(...)" returns when both readers have returned.
GatherComplete == out_eof /\ err_eof

gather_done ==
    /\ pc = "streaming"
    /\ UNCHANGED registry_vars
    /\ GatherComplete
    /\ pc' = "waiting"
    /\ UNCHANGED <<app_vars, modal_vars, exec_vars, ui_vars, orphans, worker>>

\* Mutant: every non-negative exit code counts as success.
IsSuccess_NonNegative(code) == code >= 0

\* "if returncode == 0"
IsSuccess(code) == code = 0

\* The text shown in place of an empty stderr.
FallbackText(w) ==
    CASE w = "run_script_workflow" -> "Script exited with error"
      [] w = "run_list_licenses" -> "Unknown error"
      [] OTHER -> "Connection failed"

\* "error_text = final_stderr if final_stderr else ..."
ErrorText(final_stderr, final_stdout) ==
    IF final_stderr # "" THEN final_stderr ELSE FallbackText(worker)

\* The failure panel: only execute_script_direct appends "Output:" and stdout.
FailedOutput(final_stdout) ==
    IF worker = "run_script_workflow" THEN final_stdout ELSE ""

\* "returncode = await process.wait()" and the classification that follows.
process_wait ==
    /\ pc = "waiting"
    /\ UNCHANGED registry_vars
    /\ child.state = "exited"
    /\ returncode' = child.code
    /\ LET code == child.code[1]
           final_stdout == Join(stdout_data)
           final_stderr == Join(stderr_data)
       IN  IF IsSuccess(code)
           THEN /\ output' = Panel("output-success", "Success", "", final_stdout)
                /\ notification' = Notify("Success", <<>>, "success")
           ELSE /\ output' = Panel("output-error", "Failed",
                                   ErrorText(final_stderr, final_stdout),
                                   FailedOutput(final_stdout))
                /\ notification' = Notify("Failed", <<>>, "error")
    /\ pc' = "idle"
    /\ UNCHANGED <<app_vars, modal_vars, params, cmd, stream_error, child, stdout_data, stderr_data,
                   out_eof, err_eof, orphans, worker>>

-----------------------------------------------------------------------------

-----------------------------------------------------------------------------
\* Discovery: ScriptRegistry.__init__ and _discover_scripts.

\* __init__ up to the first file of the loop: scripts is the empty dict, and
\* _discover_scripts returns at once when the directory does not exist.
Construct ==
    /\ scripts' = EmptyDict
    /\ IF ~scripts_dir.exists
       THEN reg_pc' = "done" /\ glob_pending' = {}
       ELSE /\ glob_pending' = scripts_dir.files
            /\ reg_pc' = IF scripts_dir.files = {} THEN "done" ELSE "discovering"
    /\ UNCHANGED <<scripts_dir, printed, tui_vars>>

\* The registry is constructed.
registry_init ==
    /\ reg_pc = "new"
    /\ UNCHANGED previous_scripts
    /\ Construct

\* A second registry is constructed over the same directory.
registry_init_again ==
    /\ reg_pc = "done"
    /\ previous_scripts = NoRegistry
    /\ previous_scripts' = scripts
    /\ Construct

\* One turn of the loop of _discover_scripts, on the file the glob yields
\* next (in any order), with the call of _parse_script.
discover_script ==
    /\ reg_pc = "discovering"
    /\ \E file \in glob_pending :
        LET script_path == PathOf(scripts_dir, file)
            more == glob_pending \ {file}
        IN  /\ glob_pending' = more
            /\ IF file.error = "None"
               THEN /\ scripts' = DictSet(scripts, RegistryKey(file),
                                          ParseScript(script_path, file))
                    /\ reg_pc' = IF more = {} THEN "done" ELSE "discovering"
                    /\ UNCHANGED printed
               ELSE IF ParseCatches(file.error)
               THEN /\ printed' = Append(printed,
                            "Error parsing " \o script_path \o ": "
                                \o ReadErrorText(file.error))
                    /\ reg_pc' = IF more = {} THEN "done" ELSE "discovering"
                    /\ UNCHANGED scripts
               ELSE /\ reg_pc' = "raised"
                    /\ UNCHANGED <<scripts, printed>>
    /\ UNCHANGED <<scripts_dir, previous_scripts, tui_vars>>

\* get_script_list()
ScriptList(registry) == Sorted(DictKeys(registry))

-----------------------------------------------------------------------------
Next ==
    \/ action_cursor_up
    \/ action_cursor_down
    \/ action_execute_script
    \/ action_open_switches
    \/ \E key \in SwitchKeys : on_switch_key(key)
    \/ TypeInput
    \/ on_button_pressed_execute
    \/ on_button_pressed_cancel
    \/ \E key \in ConfirmKeys : on_key(key)
    \/ ChildWriteStdout
    \/ ChildWriteStderr
    \/ ChildClose
    \/ ChildExit
    \/ OrphanExit
    \/ read_stdout
    \/ read_stderr
    \/ gather_done
    \/ process_wait

Spec == Init /\ [][Next]_vars

\* The streaming of execute_script_direct on its own: the script without
\* parameters is executed, its child writes up to MaxStreamLines lines.
NextStreaming ==
    \/ action_execute_script
    \/ ChildWrites(MaxStreamLines)
    \/ ChildWriteStderr
    \/ ChildClose
    \/ ChildExit
    \/ OrphanExit
    \/ read_stdout
    \/ read_stderr
    \/ gather_done
    \/ process_wait

SpecStreaming == Init /\ [][NextStreaming]_vars

\* Discovery on its own: any of the directories, the registry not yet
\* constructed.
InitRegistry ==
    /\ InitApp
    /\ scripts_dir \in Directories
    /\ reg_pc = "new"
    /\ glob_pending = {}
    /\ scripts = EmptyDict
    /\ previous_scripts = NoRegistry
    /\ printed = <<>>

NextRegistry ==
    \/ registry_init
    \/ registry_init_again
    \/ discover_script

SpecRegistry == InitRegistry /\ [][NextRegistry]_vars

\* Discovery of a directory that holds one script with a head.
InitDescription ==
    /\ InitApp
    /\ scripts_dir \in { Directory("Scripts", TRUE, {file}) : file \in HeadFiles }
    /\ reg_pc = "new"
    /\ glob_pending = {}
    /\ scripts = EmptyDict
    /\ previous_scripts = NoRegistry
    /\ printed = <<>>

SpecDescription == InitDescription /\ [][NextRegistry]_vars

\* Navigation over the registry of any directory: the application has been
\* constructed over a directory whose files can all be read, and the operator
\* moves the selection and executes.

\* The directories over which the constructor reads every file.
StartDirectories ==
    { directory \in Directories : \A file \in directory.files : file.error = "None" }

\* ScriptRegistry(scripts_dir).scripts once the constructor has returned, the
\* files taken in the order of their names.
RegistryOf(directory) ==
    LET files == IF directory.exists THEN directory.files ELSE {}
        names == Sorted({RegistryKey(file) : file \in files})
    IN  [i \in 1..Len(names) |->
            LET file == CHOOSE f \in files : RegistryKey(f) = names[i]
            IN  <<RegistryKey(file), ParseScript(PathOf(directory, file), file)>>]

\* get_script_info(script_name) for each script_name of get_script_list().
ScriptInfos(registry) ==
    LET names == ScriptList(registry)
    IN  [i \in 1..Len(names) |-> DictGet(registry, names[i])]

InitNavigation ==
    /\ scripts_dir \in StartDirectories
    /\ reg_pc = "done"
    /\ glob_pending = {}
    /\ scripts = RegistryOf(scripts_dir)
    /\ previous_scripts = NoRegistry
    /\ printed = <<>>
    /\ InitAppOver(ScriptInfos(scripts))

NextNavigation ==
    \/ CursorUp(ScriptInfos(scripts))
    \/ CursorDown(ScriptInfos(scripts))
    \/ ExecuteScript(ScriptInfos(scripts))
    \/ on_button_pressed_cancel
    \/ OrphanExit

SpecNavigation == InitNavigation /\ [][NextNavigation]_vars

-----------------------------------------------------------------------------
\* Properties of the execution workflow.

\* Children of the application that are running.
RunningChildren == orphans + (IF child.state = "running" THEN 1 ELSE 0)

CurrentParameters == current_script_info.parameters

\* C1: in no reachable state are two child processes spawned by the
\* application running at the same time (a second execute intent during
\* Executing is refused).
C1_SingleChild == RunningChildren <= 1

\* C2: whenever execute_script_direct has been entered, every required
\* parameter of the descriptor has a non-empty value in the params it got.
C2_RequiredPresent ==
    params # NoValues =>
        \A i \in 1..Len(CurrentParameters) :
            CurrentParameters[i].required =>
                /\ DictHas(params, CurrentParameters[i].name)
                /\ DictGet(params, CurrentParameters[i].name) # <<>>

C2_Witness ==
    /\ params # NoValues
    /\ child.state = "running"
    /\ \E i \in 1..Len(CurrentParameters) : CurrentParameters[i].required

\* C3: a submission in which a required parameter resolves to empty leaves the
\* input modal open with its fields as they were, surfaces the missing
\* prompts, leaves current_input_params unchanged, and neither shows the
\* confirmation nor spawns a process.
C3_MissingStays ==
    [][ ( /\ on_button_pressed_execute
          /\ \E i \in 1..Len(CurrentParameters) :
                /\ CurrentParameters[i].required
                /\ ResolvedValue(CurrentParameters[i], input_widgets) = <<>> )
        => ( /\ pc' = "collecting"
             /\ input_widgets' = input_widgets
             /\ notification'.message = "Missing required"
             /\ notification'.detail # <<>>
             /\ \A i \in 1..Len(CurrentParameters) :
                    ( /\ CurrentParameters[i].required
                      /\ ResolvedValue(CurrentParameters[i], input_widgets) = <<>> )
                    => \E j \in 1..Len(notification'.detail) :
                           notification'.detail[j] = PromptOrName(CurrentParameters[i])
             /\ current_input_params' = current_input_params
             /\ confirm' = confirm
             /\ result_values' = result_values
             /\ cmd' = cmd
             /\ child' = child
             /\ orphans' = orphans ) ]_vars

C3_Witness ==
    /\ pc = "collecting"
    /\ notification.message = "Missing required"
    /\ current_input_params # EmptyDict

\* C4: a cancel in the input modal or in the confirmation ends the invocation
\* in Cancelled, and no child process was or is spawned in that invocation,
\* whatever retry rounds came before.
C4_CancelSpawnsNothing ==
    [][ (on_button_pressed_cancel \/ on_key("escape"))
        => ( /\ pc' = "idle"
             /\ output' = CancelledPanel
             /\ cmd = NoCmd /\ cmd' = NoCmd
             /\ child = NoChild /\ child' = NoChild
             /\ orphans' = orphans ) ]_vars

C4_Witness ==
    /\ pc = "idle"
    /\ output = CancelledPanel
    /\ confirm.result = "cancel"
    /\ current_input_params # EmptyDict

\* C5: after a retry, every field of the next input modal holds exactly the
\* value that was submitted for its parameter (nothing when the parameter was
\* not in the submitted map).
C5_RetryRoundTrip ==
    [][ on_key("r")
        => ( /\ pc' = "collecting"
             /\ \A i \in 1..Len(CurrentParameters) :
                    LET n == CurrentParameters[i].name
                    IN  input_widgets'[n] =
                            IF DictHas(confirm.parameters, n)
                            THEN DictGet(confirm.parameters, n)
                            ELSE <<>> ) ]_vars

C5_Witness ==
    /\ pc = "collecting"
    /\ confirm.result = "retry"
    /\ input_widgets = ComposeInputs(CurrentParameters, current_input_params)
    /\ \E i \in 1..Len(CurrentParameters) :
          input_widgets[CurrentParameters[i].name] # CurrentParameters[i].default

\* C6: for a descriptor with parameters, execute_script_direct is entered and
\* a child spawned only after "execute" was chosen in the confirmation, and
\* with exactly the map that confirmation showed.
C6_ExecutesConfirmedMap ==
    ( /\ worker = "run_script_workflow"
      /\ CurrentParameters # <<>>
      /\ (cmd # NoCmd \/ child # NoChild \/ params # NoValues) )
    => ( /\ confirm.result = "execute"
         /\ params = confirm.parameters
         /\ cmd = BuildCmd(current_script_info, confirm.parameters) )

C6_Witness ==
    /\ child.state = "running"
    /\ CurrentParameters # <<>>
    /\ current_input_params # EmptyDict
    /\ params # current_input_params

\* C7: selecting a descriptor without parameters enters execute_script_direct
\* at once with an empty map, no input modal and no confirmation; selecting
\* one with parameters opens the input modal and spawns nothing.
C7_DirectOrCollect ==
    [][ action_execute_script
        => ( /\ current_script_info' = Scripts[selected_index + 1]
             /\ IF Scripts[selected_index + 1].parameters = <<>>
                THEN /\ params' = EmptyDict
                     /\ cmd' = BuildCmd(Scripts[selected_index + 1], EmptyDict)
                     /\ pc' \in {"streaming", "idle"}
                     /\ pc' = "streaming" <=> child' = NewChild("run_script_workflow")
                     /\ input_widgets' = <<>>
                     /\ confirm' = NoConfirm
                ELSE /\ pc' = "collecting"
                     /\ cmd' = NoCmd
                     /\ child' = NoChild ) ]_vars

C7_Witness ==
    /\ pc = "streaming"
    /\ CurrentParameters = <<>>
    /\ params = EmptyDict
    /\ confirm = NoConfirm

\* C8: once the exit status has been observed, both readers have seen
\* end-of-stream and the accumulated stdout and stderr lines are all the lines
\* the child wrote to each stream, decoded, in order.
C8_DrainedBeforeExit ==
    returncode # <<>> =>
        /\ out_eof /\ err_eof
        /\ stdout_data = DecodeAll(child.wrote_out)
        /\ stderr_data = DecodeAll(child.wrote_err)

C8_Witness ==
    /\ returncode # <<>>
    /\ Len(stdout_data) > 1
    /\ stderr_data # <<>>

\* The panel is the one process_wait wrote.
Classified ==
    /\ worker = "run_script_workflow"
    /\ returncode # <<>>
    /\ output.title \in {"Success", "Failed"}

InterpreterMissing ==
    pc = "idle" /\ output.error_text = ExceptionText("FileNotFoundError")

\* C10: an unresolved interpreter fails the invocation with the error kind
\* InterpreterNotFound, before any process is spawned, with a non-empty
\* remediation message.
C10_InterpreterNotFound ==
    InterpreterMissing =>
        /\ child = NoChild
        /\ output.title = "InterpreterNotFound"
        /\ notification.message = "InterpreterNotFound"
        /\ output.text # ""

\* create_subprocess_exec raised in this step of execute_script_direct.
SpawnRaised ==
    /\ action_execute_script \/ on_key("enter")
    /\ cmd' # NoCmd
    /\ child' = NoChild

\* readline() raised in this step of execute_script_direct.
StreamRaised ==
    /\ read_stdout
    /\ worker = "run_script_workflow"
    /\ stream_error' # stream_error

\* C11: an error raised while spawning the child or streaming its output ends
\* the invocation at once in the failure panel with the text of the error, the
\* worker is no longer executing, and the next selection is accepted.
C11_ErrorEndsInFailure ==
    [][ (SpawnRaised \/ StreamRaised)
        => ( /\ pc' = "idle"
             /\ output'.classes = "output-error"
             /\ output'.title = "Error executing script"
             /\ output'.error_text # ""
             /\ notification' = Notify("Error", <<output'.error_text>>, "error")
             /\ returncode' = <<>>
             /\ ~ModalOpen'
             /\ ~awaiting_input' ) ]_vars

C11_Witness ==
    /\ pc = "idle"
    /\ worker = "run_script_workflow"
    /\ stream_error = "ValueError"
    /\ output = ExceptionPanel("ValueError")
    /\ stdout_data # <<>>

\* The fields of the input modal of a descriptor, each holding its default.
DefaultInputs(parameters) ==
    [n \in {parameters[i].name : i \in 1..Len(parameters)} |->
        (CHOOSE q \in {parameters[i] : i \in 1..Len(parameters)} : q.name = n).default]

\* C21: at the first entry into the parameter input of every invocation each
\* field holds the default of its parameter only, whatever was entered,
\* retried, executed or cancelled in the invocations before.
C21_FreshInputs ==
    [][ (pc # "confirming" /\ action_execute_script /\ pc' = "collecting")
        => /\ input_widgets' = DefaultInputs(current_script_info'.parameters)
           /\ current_input_params' = EmptyDict ]_vars

\* The input modal of NewUser is opened while the child of an earlier NewUser
\* invocation, executed with values the operator entered, is still running.
C21_Witness ==
    /\ pc = "collecting"
    /\ current_script_info.name = "NewUser"
    /\ notification = Notify("Running", <<"NewUser">>, "information")
    /\ orphans = 1
    /\ input_widgets = DefaultInputs(current_script_info.parameters)

\* C22: when the worker that owns an invocation is torn down while its child
\* is running, the child is terminated: no child stays running without an
\* owning worker.
C22_NoChildWithoutOwner == orphans = 0

\* C23: the list-licenses intent spawns the interpreter on the one named
\* script with the single flag -ListLicenses and no "-Name value" pairs, in
\* the step that takes the key in the switches menu: the worker never enters
\* the parameter input or the confirmation.
C23_ListLicensesDirect ==
    [][ worker' = "run_list_licenses"
        => /\ pc' \notin {"collecting", "confirming"}
           /\ cmd' = <<"pwsh", "-NoProfile", "-NonInteractive", "-File",
                       "Scripts/MgGraphUserCreation.ps1", "-ListLicenses">>
           /\ worker # "run_list_licenses" =>
                 /\ pc = "switches"
                 /\ worker = "open_switches_menu"
                 /\ pc' \in {"streaming", "idle"}
                 /\ pc' = "streaming" <=> child' = NewChild("run_list_licenses") ]_vars

C23_Witness ==
    /\ worker = "run_list_licenses"
    /\ child.state = "running"
    /\ pc = "streaming"
    /\ cmd = UtilityCmd("run_list_licenses")
    /\ current_input_params # EmptyDict

\* C25: on submission each parameter resolves to its trimmed entry when that
\* is non-empty and to its default otherwise; the map carried to the
\* confirmation and to the process holds exactly the parameters that resolve
\* to a non-empty value, so a parameter that resolves to empty is in neither
\* the map nor the argument list.
C25_ResolvedValues ==
    [][ /\ (pc = "collecting" /\ pc' = "confirming") =>
              /\ \A i \in 1..Len(CurrentParameters) :
                    LET name == CurrentParameters[i].name
                        entry == Strip(input_widgets[name])
                        resolved == IF entry # <<>> THEN entry
                                    ELSE CurrentParameters[i].default
                    IN  IF resolved # <<>>
                        THEN DictHas(result_values', name)
                                /\ DictGet(result_values', name) = resolved
                        ELSE ~DictHas(result_values', name)
              /\ DictKeys(result_values')
                    \subseteq {CurrentParameters[i].name : i \in 1..Len(CurrentParameters)}
              /\ confirm'.parameters = result_values'
        /\ (pc = "confirming" /\ pc' \in {"streaming", "idle"} /\ cmd' # NoCmd) =>
              /\ params' = result_values
              /\ \A k \in 1..Len(params') : params'[k][2] # <<>>
              /\ Len(cmd') = 5 + 2 * Len(params')
              /\ \A i \in 1..Len(CurrentParameters) :
                    ~DictHas(params', CurrentParameters[i].name) =>
                        \A k \in 1..Len(cmd') :
                            cmd'[k] # "-" \o CurrentParameters[i].name ]_vars

\* SetPassword is executed with its only parameter left empty.
C25_Witness ==
    /\ worker = "run_script_workflow"
    /\ child.state = "running"
    /\ current_script_info.name = "SetPassword"
    /\ params = EmptyDict
    /\ Len(cmd) = 5

\* C28: while the parameter input or the confirmation is open, cursor-up,
\* cursor-down and execute are ignored: the selection stays, no script
\* description is written to the output panel, and no new workflow starts
\* (the invocation in progress stays the one of the same descriptor, and the
\* only ways on are the modal's own: submit, retry, execute, cancel).
C28_ModalIgnoresKeys ==
    [][ (pc = "collecting" \/ pc = "confirming")
        => /\ selected_index' = selected_index
           /\ (output' # output => output'.title # "Script")
           /\ current_script_info' = current_script_info
           /\ worker' = worker
           /\ orphans' <= orphans
           /\ pc = "collecting" =>
                 /\ pc' \in {"collecting", "confirming", "idle"}
                 /\ current_input_params' = current_input_params
                 /\ (pc' = "idle" => output' = CancelledPanel)
           /\ pc = "confirming" =>
                 /\ (pc' = "collecting" => current_input_params' = result_values)
                 /\ (pc' = "streaming" => params' = result_values) ]_vars

\* The operator is typing into the input modal of the second script.
C28_Witness ==
    /\ pc = "collecting"
    /\ selected_index = 1
    /\ \E n \in DOMAIN input_widgets : input_widgets[n] = <<" ", "a", " ">>

\* A step taken while a worker is executing that is not the start of another
\* worker.
ExecutingStep == Executing /\ ~action_execute_script /\ ~action_open_switches

\* C26: no timeout is enforced on Executing: the invocation leaves Executing
\* only when both readers have seen the end of their stream and the child has
\* exited, or when an exception is raised; while the child runs, no exit
\* status is observed and no completion is shown.
C26_NoTimeout ==
    [][ ExecutingStep =>
          /\ ~Executing' =>
                \/ /\ out_eof /\ err_eof
                   /\ child.state = "exited"
                   /\ returncode' = child.code
                   /\ output'.title \in {"Success", "Failed"}
                \/ /\ stream_error' # "None"
                   /\ returncode' = <<>>
          /\ (pc = "streaming" /\ pc' = "waiting") => (out_eof /\ err_eof)
          /\ child'.state = "running" =>
                /\ returncode' = <<>>
                /\ stream_error' = "None" => Executing' ]_vars

\* The child has closed its standard output and keeps its standard error open
\* without writing or exiting: the invocation waits.
C26_Witness ==
    /\ worker = "run_script_workflow"
    /\ pc = "streaming"
    /\ child.state = "running"
    /\ out_eof
    /\ ~err_eof
    /\ Len(stderr_data) = Len(child.wrote_err)
    /\ output.title = "Running"

\* The terminal states of an invocation: Completed(Success),
\* Completed(Failure), which includes the exception panel, and Cancelled.
Terminal ==
    /\ pc = "idle"
    /\ output.title \in {"Success", "Failed", "Error executing script", "Cancelled"}

\* C27: every invocation that was started reaches a terminal state: no step
\* taken while an invocation of run_script_workflow is in progress is the
\* start of another worker in its place, and the step that ends the
\* invocation leaves it in a terminal state.
C27_ReachesTerminal ==
    [][ (worker = "run_script_workflow" /\ pc # "idle")
        => /\ ~action_execute_script
           /\ ~action_open_switches
           /\ pc' = "idle" => Terminal' ]_vars

\* C31: after any sequence of cursor-up, cursor-down and execute actions
\* 0 <= selected_index, and selected_index < len(script_list) when the list
\* is not empty; an execute action never indexes the list out of range (it
\* takes the script at selected_index), and with an empty list it starts no
\* workflow.
C31_IndexInRange ==
    /\ [](/\ 0 <= selected_index
          /\ ScriptList(scripts) # <<>> => selected_index < Len(ScriptList(scripts))
          /\ pc # "crashed")
    /\ [][ ExecuteScript(ScriptInfos(scripts))
           => IF ScriptList(scripts) = <<>>
              THEN /\ worker' = worker
                   /\ pc' = pc
                   /\ child' = child
                   /\ current_script_info' = current_script_info
                   /\ notification'.message = "No scripts available"
              ELSE /\ selected_index + 1 \in DOMAIN ScriptList(scripts)
                   /\ worker' = "run_script_workflow"
                   /\ current_script_info' =
                          DictGet(scripts, ScriptList(scripts)[selected_index + 1]) ]_vars

\* The selection was moved to the last of two scripts and that script was
\* executed.
C31_Witness ==
    /\ Len(ScriptList(scripts)) = 2
    /\ selected_index = 1
    /\ worker = "run_script_workflow"
    /\ current_script_info.name = ScriptList(scripts)[2]
    /\ pc # "idle"

\* The description by the words of the specification, for the lines of a
\* script: what a line is, and the first comment that qualifies among the
\* first 30 lines, before any line that stops the scan.
IsBlankLine(line) == Strip(line) = <<>>

IsInterpreterLine(line) == StartsWith(<<"#", "!">>, Strip(line))

IsCommentLine(line) ==
    /\ ~IsBlankLine(line)
    /\ Head(Strip(line)) = "#"
    /\ ~IsInterpreterLine(line)

OpensBlockComment(line) == StartsWith(<<"<", "#">>, Strip(line))

StopsScan(line) ==
    ~(IsBlankLine(line) \/ IsInterpreterLine(line) \/ IsCommentLine(line)
        \/ OpensBlockComment(line))

CommentText(line) == Strip(LStripHash(Strip(line)))

OnlyDashesEquals(text) == \A i \in 1..Len(text) : text[i] \in {"-", "="}

OnlyDashesEqualsSpace(text) ==
    \A i \in 1..Len(text) : text[i] \in {"-", "="} \cup Whitespace

\* The lines that give the description; spaced tells whether a rule may have
\* white space in it.
QualifyingLines(lines, spaced) ==
    { i \in 1..Min({30, Len(lines)}) :
        /\ IsCommentLine(lines[i])
        /\ TextLen(CommentText(lines[i])) > 10
        /\ IF spaced THEN ~OnlyDashesEqualsSpace(CommentText(lines[i]))
           ELSE ~OnlyDashesEquals(CommentText(lines[i]))
        /\ \A j \in 1..(i - 1) : ~StopsScan(lines[j]) }

ExpectedDescription(table, file, spaced) ==
    LET found == QualifyingLines(file.sections, spaced)
    IN  IF DictHas(table, file.stem) THEN DictGet(table, file.stem)
        ELSE IF found # {} THEN Join(CommentText(file.sections[Min(found)]))
        ELSE "PowerShell script: " \o file.stem

\* Override tables: none, one for the stem, one for the stem in another case.
OverrideTables ==
    { EmptyDict, << <<"B", "Custom">> >>, << <<"b", "Custom">> >> }

DescriptionAsExpected(spaced) ==
    reg_pc = "done" =>
        \A file \in scripts_dir.files :
            /\ DictHas(scripts, file.stem)
            /\ DictGet(scripts, file.stem).description =
                  ExpectedDescription(SCRIPT_DESCRIPTIONS, file, spaced)
            /\ \A table \in OverrideTables :
                  Description(table, file.stem, Content(file)) =
                      ExpectedDescription(table, file, spaced)

\* C32 as stated: the description is the first comment line within the first
\* 30 lines that, stripped of comment markers and white space, is longer than
\* 10 characters and not made only of dashes and equals signs; the scan stops
\* at the first line that is neither blank, an interpreter line nor a
\* comment; without such a comment it is "PowerShell script: " and the stem;
\* an entry of the override table for the exact stem replaces it.
C32_Description_Original == DescriptionAsExpected(FALSE)

\* C32, amended: as stated, but a comment made only of dashes, equals signs
\* and white space between them does not qualify either.
C32_Description == DescriptionAsExpected(TRUE)

\* A rule with a space in it, then a comment that is the description.
C32_Witness ==
    /\ reg_pc = "done"
    /\ \E file \in scripts_dir.files :
         /\ Len(file.sections) = 2
         /\ OnlyDashesEqualsSpace(CommentText(file.sections[1]))
         /\ ~OnlyDashesEquals(CommentText(file.sections[1]))
         /\ TextLen(CommentText(file.sections[1])) > 10
         /\ DictGet(scripts, file.stem).description = "Connects the tenant"

\* C29: all operations are serialized: a utility operation and a script
\* execution never both have a child process running, so a script execution
\* that spawns its child while the child of a utility operation is running
\* does not leave that child running.
C29_Serialized ==
    [][ ( /\ worker \in UtilityWorkers
          /\ child.state = "running"
          /\ worker' = "run_script_workflow"
          /\ child'.state = "running" )
        => orphans' = orphans ]_vars

IsPrefix(a, b) == Len(a) <= Len(b) /\ SubSeq(b, 1, Len(a)) = a

\* The text of a live snapshot made of the first i stdout lines and the first
\* j stderr lines.
SnapshotOf(out_lines, err_lines, i, j) ==
    Join(SubSeq(out_lines, 1, i)) \o
      (IF j > 0 THEN "\n\n[Warnings/Errors]\n" \o Join(SubSeq(err_lines, 1, j)) ELSE "")

SnapshotText(i, j) == SnapshotOf(stdout_data, stderr_data, i, j)

\* A step of the invocation that is executing, not the start of another.
StreamingStep ==
    /\ worker = "run_script_workflow"
    /\ pc = "streaming"
    /\ ~action_execute_script
    /\ ~action_open_switches

\* C30: during Executing the stdout and stderr line sequences only grow, by
\* one line at the end, each by its own reader and in the order the child
\* wrote the lines; and every live snapshot in the output panel is the text
\* of a prefix of the stdout lines followed, when stderr lines have been
\* read, by the warnings header and the text of a prefix of the stderr lines.
C30_AppendOnlySnapshots ==
    [][ /\ StreamingStep =>
              /\ IsPrefix(stdout_data, stdout_data')
              /\ IsPrefix(stderr_data, stderr_data')
              /\ Len(stdout_data') + Len(stderr_data')
                    <= Len(stdout_data) + Len(stderr_data) + 1
              /\ (stdout_data' # stdout_data => read_stdout)
              /\ (stderr_data' # stderr_data => read_stderr)
              /\ stdout_data' = DecodeAll(SubSeq(child.wrote_out, 1, Len(stdout_data')))
              /\ stderr_data' = DecodeAll(SubSeq(child.wrote_err, 1, Len(stderr_data')))
              /\ (output' # output /\ pc' = "streaming") =>
                    output'.text = SnapshotOf(stdout_data', stderr_data',
                                              Len(stdout_data'), Len(stderr_data'))
        /\ (worker = "run_script_workflow" /\ Executing /\ output.title = "Running") =>
              \E i \in 0..Len(stdout_data), j \in 0..Len(stderr_data) :
                  /\ output.text = SnapshotText(i, j)
                  /\ (j = 0 => stderr_data = <<>>) ]_vars

\* The snapshot the stdout reader published at its fifth line.
C30_Witness ==
    /\ worker = "run_script_workflow"
    /\ pc = "streaming"
    /\ output.title = "Running"
    /\ Len(stdout_data) = 5
    /\ stderr_data = <<>>
    /\ output.text = SnapshotText(5, 0)

\* The files of the directory that are read, and what a registry holds for
\* one of them.
ReadableFiles == {file \in scripts_dir.files : file.error = "None"}

ParametersIn(registry, file) ==
    IF DictHas(registry, file.stem) THEN DictGet(registry, file.stem).parameters
    ELSE <<>>

Discovered == reg_pc = "done" /\ scripts_dir.exists

\* The declarations of a file, and the extracted parameters of a declaration.
Declarations(file) == {file.sections[i] : i \in 1..Len(file.sections)}

Extracted(file, sec) ==
    LET parameters == ParametersIn(scripts, file)
    IN  {parameters[k] : k \in {j \in 1..Len(parameters) : parameters[j].name = sec.name}}

\* C12: for every parameter section that carries an explicit Mandatory
\* boolean literal, the required flag of the extracted parameter equals that
\* literal, with or without a default value in the section.
C12_RequiredEqualsLiteral ==
    Discovered =>
        \A file \in ReadableFiles : \A sec \in Declarations(file) :
            AttributeLiteral(sec.attribute) # "none" =>
                \A param \in Extracted(file, sec) :
                    param.required = (AttributeLiteral(sec.attribute) = "true")

\* C13: for every parameter section without an explicit Mandatory boolean
\* literal, the required flag of the extracted parameter is true if and only
\* if its default is empty after trimming.
C13_RequiredIffNoDefault ==
    Discovered =>
        \A file \in ReadableFiles : \A sec \in Declarations(file) :
            AttributeLiteral(sec.attribute) = "none" =>
                \A param \in Extracted(file, sec) :
                    /\ param.required = (Strip(param.default) = <<>>)
                    /\ param.required = (Strip(DefaultText(sec.default)) = <<>>)

C13_Witness ==
    /\ Discovered
    /\ \E file \in ReadableFiles :
        /\ \E sec \in Declarations(file) : \E param \in Extracted(file, sec) :
              sec.attribute = "position" /\ sec.default = "blank" /\ param.required
        /\ \E sec \in Declarations(file) : \E param \in Extracted(file, sec) :
              sec.attribute = "none" /\ sec.default = "n/a" /\ ~param.required

ScenarioBlock ==
    <<"param", "(">>
        \o SectionsInline(<< Section("true", "string", "UserPrincipalName", "none"),
                             Section("none", "string", "Notes", "n/a") >>)
        \o <<")">>

NameRequiredDefault(parameters) ==
    [k \in 1..Len(parameters) |->
        <<parameters[k].name, parameters[k].required, parameters[k].default>>]

\* C15: a script whose text contains the block
\* param([Parameter(Mandatory=$true)][string]$UserPrincipalName, [string]$Notes = "n/a")
\* yields exactly two parameters, in this order: UserPrincipalName with
\* required = true and default "", and Notes with required = false and
\* default "n/a".
C15_ScenarioYieldsTwo ==
    Discovered =>
        \A file \in ReadableFiles :
            Contains(ScenarioBlock, Content(file)) =>
                NameRequiredDefault(ParametersIn(scripts, file))
                    = << <<"UserPrincipalName", TRUE, <<>>>>,
                         <<"Notes", FALSE, <<"n", "/", "a">>>> >>

\* C16: discovery never fails: a file whose reading raises an I/O or a
\* decoding error is skipped with a printed line, and every file of the
\* directory that is read is in the registry with its descriptor.
C16_DiscoveryNeverFails ==
    /\ reg_pc # "raised"
    /\ Discovered =>
          /\ \A file \in ReadableFiles :
                /\ DictHas(scripts, file.stem)
                /\ DictGet(scripts, file.stem) = ParseScript(PathOf(scripts_dir, file), file)
          /\ \A file \in scripts_dir.files \ ReadableFiles :
                /\ ~DictHas(scripts, file.stem)
                /\ \E n \in 1..Len(printed) :
                      printed[n] = "Error parsing " \o PathOf(scripts_dir, file) \o ": "
                                      \o ReadErrorText(file.error)

C16_Witness ==
    /\ Discovered
    /\ \E file \in scripts_dir.files : file.error = "UnicodeDecodeError"
    /\ \E file \in ReadableFiles : DictHas(scripts, file.stem)
    /\ Len(printed) = 1

\* C24: parameter names are unique within a descriptor: the parameters
\* extracted from a script text hold no two parameters of the same name.
C24_UniqueNames ==
    Discovered =>
        \A file \in ReadableFiles :
            LET parameters == ParametersIn(scripts, file)
            IN  \A i, j \in 1..Len(parameters) :
                    parameters[i].name = parameters[j].name => i = j

\* The descriptors of a registry, as a set.
DescriptorSet(registry) == {registry[i] : i \in 1..Len(registry)}

\* C17: discovering the same unchanged directory twice yields descriptor sets
\* that are equal as sets, and equal script lists, whatever order the files
\* are enumerated in.
C17_RediscoveryEqual ==
    (reg_pc = "done" /\ previous_scripts # NoRegistry) =>
        /\ DescriptorSet(scripts) = DescriptorSet(previous_scripts)
        /\ ScriptList(scripts) = ScriptList(previous_scripts)

C17_Witness ==
    /\ reg_pc = "done"
    /\ previous_scripts # NoRegistry
    /\ Len(scripts) = 2
    /\ scripts # previous_scripts

\* The "-Name value" pairs of the parameters that have a value in p, in the
\* order of the descriptor's parameter list.
RECURSIVE PairsInDescriptorOrder(_, _)
PairsInDescriptorOrder(parameters, p) ==
    IF parameters = <<>> THEN <<>>
    ELSE LET name == Head(parameters).name
         IN  (IF DictHas(p, name) THEN <<"-" \o name, Join(DictGet(p, name))>> ELSE <<>>)
                 \o PairsInDescriptorOrder(Tail(parameters), p)

\* C18: in the confirmation, the value of a parameter is shown masked exactly
\* when the secret flag of its descriptor parameter is true, and is shown as
\* entered otherwise; a masked line does not hold the value.
C18_MaskedIffSecret ==
    pc = "confirming" =>
        /\ Len(confirm.lines) = Len(confirm.parameters)
        /\ \A i \in 1..Len(confirm.parameters) :
              LET key == confirm.parameters[i][1]
                  value == Join(confirm.parameters[i][2])
                  param == CHOOSE q \in {CurrentParameters[j] : j \in 1..Len(CurrentParameters)} :
                               q.name = key
              IN  /\ confirm.lines[i][1] = key
                  /\ confirm.lines[i][2] = (IF param.password THEN Mask ELSE value)
                  /\ param.password => confirm.lines[i][2] # value

C18_Witness ==
    /\ pc = "confirming"
    /\ \E i \in 1..Len(confirm.lines) : confirm.lines[i] = <<"Password", Mask>>

\* C19: the argument list of execute_script_direct is the interpreter, the
\* three fixed flags and the script path, then one "-Name value" pair for each
\* parameter that has a value, in the order of the descriptor's parameter list.
C19_CmdInDescriptorOrder ==
    (worker = "run_script_workflow" /\ cmd # NoCmd) =>
        cmd = <<"pwsh", "-NoProfile", "-NonInteractive", "-File",
                "Scripts/" \o current_script_info.name \o ".ps1">>
                  \o PairsInDescriptorOrder(CurrentParameters, params)

C19_Witness ==
    /\ child.state = "running"
    /\ worker = "run_script_workflow"
    /\ cmd = <<"pwsh", "-NoProfile", "-NonInteractive", "-File", "Scripts/NewUser.ps1",
               "-UserPrincipalName", "a", "-Notes", "d">>

\* C20: every child the application spawns, for a script or for one of the
\* three utility commands, has its standard input redirected to the null
\* device.
C20_StdinDevNull == child # NoChild => child.stdin = "DEVNULL"

C20_Witness ==
    /\ child.state = "running"
    /\ worker = "run_connect_exchange"
    /\ cmd = UtilityCmd("run_connect_exchange")

====
